---- MODULE Spec2Model ----
(***************************************************************************)
(* Matching and claim-verification subsystem of lost-and-found-ai.         *)
(*                                                                         *)
(* Text is a sequence of one-character strings.  A float of the source is  *)
(* an integer number of hundredths (0.7 is 70), rounded down from the      *)
(* exact real value; every threshold of the source is a whole number of    *)
(* hundredths, so each comparison against a threshold is exact.            *)
(* Where a property is about the equality of two floats, the scorer is     *)
(* computed in IEEE 754 binary64 instead (section "binary64 arithmetic").  *)
(***************************************************************************)
EXTENDS Integers, Sequences, FiniteSets, TLC

\* ------------------------------------------------------------------ text

None == <<"None">>

LowerLetters ==
    {"a","b","c","d","e","f","g","h","i","j","k","l","m",
     "n","o","p","q","r","s","t","u","v","w","x","y","z"}

UpperToLower ==
    [c \in {"A","B","C","D","E","F","G","H","I","J","K","L","M",
            "N","O","P","Q","R","S","T","U","V","W","X","Y","Z"} |->
        CASE c = "A" -> "a" [] c = "B" -> "b" [] c = "C" -> "c" [] c = "D" -> "d"
          [] c = "E" -> "e" [] c = "F" -> "f" [] c = "G" -> "g" [] c = "H" -> "h"
          [] c = "I" -> "i" [] c = "J" -> "j" [] c = "K" -> "k" [] c = "L" -> "l"
          [] c = "M" -> "m" [] c = "N" -> "n" [] c = "O" -> "o" [] c = "P" -> "p"
          [] c = "Q" -> "q" [] c = "R" -> "r" [] c = "S" -> "s" [] c = "T" -> "t"
          [] c = "U" -> "u" [] c = "V" -> "v" [] c = "W" -> "w" [] c = "X" -> "x"
          [] c = "Y" -> "y" [] c = "Z" -> "z"]

Whitespace == {" "}

\* str.lower()
lower(s) ==
    [i \in 1..Len(s) |-> IF s[i] \in DOMAIN UpperToLower THEN UpperToLower[s[i]] ELSE s[i]]

\* str.split(): the maximal runs of non-whitespace characters, in order
RECURSIVE split_from(_, _, _)
split_from(s, i, word) ==
    IF i > Len(s)
    THEN IF word = <<>> THEN <<>> ELSE <<word>>
    ELSE IF s[i] \in Whitespace
         THEN (IF word = <<>> THEN <<>> ELSE <<word>>) \o split_from(s, i + 1, <<>>)
         ELSE split_from(s, i + 1, Append(word, s[i]))

split(s) == split_from(s, 1, <<>>)

\* ' '.join(parts)
RECURSIVE join(_)
join(parts) ==
    IF parts = <<>> THEN <<>>
    ELSE IF Len(parts) = 1 THEN parts[1]
    ELSE parts[1] \o <<" ">> \o join(Tail(parts))

\* str.strip()
RECURSIVE lstrip(_)
lstrip(s) ==
    IF s # <<>> /\ s[1] \in Whitespace THEN lstrip(Tail(s)) ELSE s

RECURSIVE rstrip(_)
rstrip(s) ==
    IF s # <<>> /\ s[Len(s)] \in Whitespace THEN rstrip(SubSeq(s, 1, Len(s) - 1)) ELSE s

strip(s) == rstrip(lstrip(s))

\* a in b, for strings
contains(b, a) ==
    \E i \in 0..(Len(b) - Len(a)) : SubSeq(b, i + 1, i + Len(a)) = a

\* truthiness of an optional string: None and '' are false
truthy(s) == s # None /\ s # <<>>

stop_words == {
    <<"t","h","e">>, <<"a">>, <<"a","n">>, <<"a","n","d">>, <<"o","r">>, <<"b","u","t">>,
    <<"i","n">>, <<"o","n">>, <<"a","t">>, <<"t","o">>, <<"f","o","r">>, <<"o","f">>,
    <<"w","i","t","h">>, <<"b","y">>, <<"i","s">>, <<"w","a","s">>, <<"a","r","e">>,
    <<"w","e","r","e">>, <<"b","e">>, <<"b","e","e","n">>, <<"b","e","i","n","g">>,
    <<"h","a","v","e">>, <<"h","a","s">>, <<"h","a","d">>, <<"d","o">>,
    <<"d","o","e","s">>, <<"d","i","d">>, <<"w","i","l","l">>, <<"w","o","u","l","d">>,
    <<"s","h","o","u","l","d">>, <<"c","o","u","l","d">>, <<"m","a","y">>,
    <<"m","i","g","h","t">>, <<"m","u","s","t">>, <<"c","a","n">>, <<"i","t">>,
    <<"h","e">>, <<"s","h","e">>, <<"t","h","e","y">>, <<"w","e">>, <<"y","o","u">>,
    <<"i">>, <<"m","e">>, <<"h","i","m">>, <<"h","e","r">>, <<"t","h","e","m">>,
    <<"u","s">>, <<"m","y">>, <<"y","o","u","r">>, <<"h","i","s">>,
    <<"t","h","e","i","r">>, <<"o","u","r">>, <<"t","h","i","s">>, <<"t","h","a","t">>,
    <<"t","h","e","s","e">>, <<"t","h","o","s","e">> }

\* re.sub(r'[^a-z\s]', ' ', text)
letters_only(text) ==
    [i \in 1..Len(text) |-> IF text[i] \in LowerLetters \cup Whitespace THEN text[i] ELSE " "]

preprocess_text(text) ==
    IF ~truthy(text) THEN <<>>
    ELSE join(split(letters_only(lower(text))))

tokenize(text) ==
    LET words == split(preprocess_text(text))
    IN  SelectSeq(words, LAMBDA word : word \notin stop_words /\ Len(word) > 2)

\* -------------------------------------------------------- similarity scorer

ToSet(seq) == {seq[i] : i \in 1..Len(seq)}

\* Counter(tokens).get(term, 0)
Count(tokens, term) == Cardinality({i \in 1..Len(tokens) : tokens[i] = term})

RECURSIVE Sum(_, _)
Sum(f, S) ==
    IF S = {} THEN 0
    ELSE LET x == CHOOSE y \in S : TRUE IN f[x] + Sum(f, S \ {x})

\* The cosine of two vectors over the same vocabulary, kept exact as the pair
\* (num, den2) standing for num / sqrt(den2).  A vector holds the numerators of
\* the term frequencies (count / len(tokens)); the positive factor 1/len(tokens)
\* of each vector cancels in the quotient.
cosine_similarity(vec1, vec2) ==
    IF DOMAIN vec1 = {} \/ DOMAIN vec2 = {} \/ DOMAIN vec1 # DOMAIN vec2
    THEN [num |-> 0, den2 |-> 1]
    ELSE LET dot_product == Sum([t \in DOMAIN vec1 |-> vec1[t] * vec2[t]], DOMAIN vec1)
             magnitude1sq == Sum([t \in DOMAIN vec1 |-> vec1[t] * vec1[t]], DOMAIN vec1)
             magnitude2sq == Sum([t \in DOMAIN vec2 |-> vec2[t] * vec2[t]], DOMAIN vec2)
         IN  IF magnitude1sq = 0 \/ magnitude2sq = 0
             THEN [num |-> 0, den2 |-> 1]
             ELSE [num |-> dot_product, den2 |-> magnitude1sq * magnitude2sq]

\* calculate_tf_idf_similarity after the two texts are tokenized
tf_idf_of_tokens(tokens1, tokens2, vocab) ==
    IF tokens1 = <<>> \/ tokens2 = <<>> \/ vocab = {}
    THEN [num |-> 0, den2 |-> 1]
    ELSE cosine_similarity([term \in vocab |-> Count(tokens1, term)],
                           [term \in vocab |-> Count(tokens2, term)])

tf_idf_pair(tokens1, tokens2) == tf_idf_of_tokens(tokens1, tokens2, ToSet(tokens1 \o tokens2))

calculate_tf_idf_similarity(text1, text2) == tf_idf_pair(tokenize(text1), tokenize(text2))

\* calculate_jaccard_similarity after the two texts are tokenized; the measure is kept
\* exact as the fraction num / den
jaccard_of_tokens(tokens1, tokens2) ==
    IF tokens1 = {} /\ tokens2 = {}
    THEN [num |-> 1, den |-> 1]
    ELSE IF tokens1 \cup tokens2 = {}
    THEN [num |-> 0, den |-> 1]
    ELSE [num |-> Cardinality(tokens1 \cap tokens2),
          den |-> Cardinality(tokens1 \cup tokens2)]

calculate_jaccard_similarity(text1, text2) ==
    jaccard_of_tokens(ToSet(tokenize(text1)), ToSet(tokenize(text2)))

\* 100 * (0.7 * cos + 0.3 * jac) >= k, decided in integers
AtLeast(cos, jac, k) ==
    LET rest == k * jac.den - 30 * jac.num
        lhs == 70 * cos.num * jac.den
    IN  rest <= 0 \/ lhs * lhs >= rest * rest * cos.den2

\* (0.7 * tf_idf_sim) + (0.3 * jaccard_sim), in hundredths, rounded down
combined_similarity(cos, jac) ==
    CHOOSE k \in 0..100 :
        AtLeast(cos, jac, k) /\ (k = 100 \/ ~AtLeast(cos, jac, k + 1))

calculate_similarity(text1, text2) ==
    IF ~truthy(text1) \/ ~truthy(text2)
    THEN 0
    ELSE combined_similarity(calculate_tf_idf_similarity(text1, text2),
                             calculate_jaccard_similarity(text1, text2))

\* ------------------------------------------------------ binary64 arithmetic

\* The floats of the scorer as IEEE 754 binary64 values, for the claims that compare
\* scores for equality.  The scorer handles only zero and positive normal numbers
\* (never a subnormal, an infinity or a NaN), so a float is [m, e] standing for
\* m * 2^e with 2^52 <= m < 2^53, or Zero.  m is a natural number written in
\* base 2^13, least significant digit first, without leading zeros.  Each operation
\* rounds the exact result to nearest, ties to even, as the hardware does.

Limb == 8192
LimbBits == 13
Precision == 53

digit(a, i) == IF i \in 1..Len(a) THEN a[i] ELSE 0

RECURSIVE Trim(_)
Trim(a) == IF a # <<>> /\ a[Len(a)] = 0 THEN Trim(SubSeq(a, 1, Len(a) - 1)) ELSE a

RECURSIVE Carry(_, _)
Carry(a, c) ==
    IF a = <<>>
    THEN IF c = 0 THEN <<>> ELSE <<c % Limb>> \o Carry(<<>>, c \div Limb)
    ELSE <<(a[1] + c) % Limb>> \o Carry(Tail(a), (a[1] + c) \div Limb)

BigOf(n) == Trim(Carry(<<n>>, 0))

BigAdd(a, b) ==
    Trim(Carry([i \in 1..(IF Len(a) > Len(b) THEN Len(a) ELSE Len(b)) |->
                    digit(a, i) + digit(b, i)], 0))

\* a - b for a >= b
RECURSIVE Borrow(_, _, _, _)
Borrow(a, b, i, c) ==
    IF i > Len(a) THEN <<>>
    ELSE LET d == a[i] - digit(b, i) - c
         IN  IF d < 0 THEN <<d + Limb>> \o Borrow(a, b, i + 1, 1)
             ELSE <<d>> \o Borrow(a, b, i + 1, 0)

BigSub(a, b) == Trim(Borrow(a, b, 1, 0))

RECURSIVE LessFrom(_, _, _)
LessFrom(a, b, i) ==
    IF i = 0 THEN FALSE
    ELSE IF a[i] # b[i] THEN a[i] < b[i]
    ELSE LessFrom(a, b, i - 1)

BigLess(a, b) ==
    IF Len(a) # Len(b) THEN Len(a) < Len(b) ELSE LessFrom(a, b, Len(a))

BigMul(a, b) ==
    IF a = <<>> \/ b = <<>> THEN <<>>
    ELSE Trim(Carry([k \in 1..(Len(a) + Len(b) - 1) |->
                LET I == {i \in 1..Len(a) : k + 1 - i \in 1..Len(b)}
                IN  Sum([i \in I |-> a[i] * b[k + 1 - i]], I)], 0))

\* a * 2^k
BigShl(a, k) ==
    IF a = <<>> THEN <<>>
    ELSE [i \in 1..(k \div LimbBits) |-> 0]
         \o Trim(Carry([i \in 1..Len(a) |-> a[i] * 2^(k % LimbBits)], 0))

\* a \div 2^k
BigShr(a, k) ==
    LET whole == k \div LimbBits
        r == k % LimbBits
    IN  Trim([i \in 1..(Len(a) - whole) |->
                (a[i + whole] \div 2^r) + (digit(a, i + whole + 1) % 2^r) * 2^(LimbBits - r)])

\* a % 2^k
BigLow(a, k) ==
    Trim([i \in 1..(IF Len(a) < k \div LimbBits + 1 THEN Len(a) ELSE k \div LimbBits + 1) |->
            IF i <= k \div LimbBits THEN a[i] ELSE a[i] % 2^(k % LimbBits)])

RECURSIVE SmallBitLen(_)
SmallBitLen(n) == IF n = 0 THEN 0 ELSE 1 + SmallBitLen(n \div 2)

BitLen(a) == IF a = <<>> THEN 0 ELSE (Len(a) - 1) * LimbBits + SmallBitLen(a[Len(a)])

Bit(a, i) == (digit(a, i \div LimbBits + 1) \div 2^(i % LimbBits)) % 2

\* The largest digit g with g * d <= r, for r < d * Limb, found one bit at a time
RECURSIVE DigitFrom(_, _, _, _)
DigitFrom(r, d, b, g) ==
    IF b < 0 THEN g
    ELSE IF BigLess(r, BigMul(BigOf(g + 2^b), d)) THEN DigitFrom(r, d, b - 1, g)
    ELSE DigitFrom(r, d, b - 1, g + 2^b)

\* Long division, one digit of n at a time: the quotient and remainder of
\* n \div Limb^(i - 1) by d, from those of n \div Limb^i and digit i of n
DivStep(d, q, r, g) == [q |-> Trim(<<g>> \o q), r |-> BigSub(r, BigMul(BigOf(g), d))]

DivDigit(d, q, r) ==
    IF BigLess(r, d) THEN [q |-> Trim(<<0>> \o q), r |-> r]
    ELSE DivStep(d, q, r, DigitFrom(r, d, LimbBits - 1, 0))

DivNext(digit_i, d, above) == DivDigit(d, above.q, Trim(<<digit_i>> \o above.r))

RECURSIVE DivFrom(_, _, _)
DivFrom(n, d, i) ==
    IF i > Len(n) THEN [q |-> <<>>, r |-> <<>>]
    ELSE DivNext(n[i], d, DivFrom(n, d, i + 1))

BigDivMod(n, d) == DivFrom(n, d, 1)

\* The integer square root by Newton's iteration from a power of two above it
RECURSIVE SqrtFrom(_, _)
SqrtFrom(n, x) ==
    LET y == BigShr(BigAdd(x, BigDivMod(n, x).q), 1)
    IN  IF BigLess(y, x) THEN SqrtFrom(n, y) ELSE x

BigSqrt(n) == IF n = <<>> THEN <<>> ELSE SqrtFrom(n, BigShl(<<1>>, (BitLen(n) + 1) \div 2))

Zero == [m |-> <<>>, e |-> 0]

\* The float nearest to (n + f) * 2^e, ties to even, where 0 <= f < 1 and inexact
\* says f > 0; an inexact n has more than Precision bits
RoundOf(q, e, up) ==
    IF BitLen(IF up THEN BigAdd(q, <<1>>) ELSE q) > Precision
    THEN [m |-> BigShr(BigAdd(q, <<1>>), 1), e |-> e + 1]
    ELSE [m |-> IF up THEN BigAdd(q, <<1>>) ELSE q, e |-> e]

RoundCut(n, e, inexact, s) ==
    LET rem == BigLow(n, s)
        half == BigShl(<<1>>, s - 1)
    IN  RoundOf(BigShr(n, s), e + s,
                \/ BigLess(half, rem)
                \/ rem = half /\ (inexact \/ Bit(n, s) = 1))

Round(n, e, inexact) ==
    IF n = <<>> THEN Zero
    ELSE IF BitLen(n) <= Precision
    THEN [m |-> BigShl(n, Precision - BitLen(n)), e |-> e - (Precision - BitLen(n))]
    ELSE RoundCut(n, e, inexact, BitLen(n) - Precision)

\* float(n) for a small natural number
FloatOf(n) == Round(BigOf(n), 0, FALSE)

\* x * y
FMul(x, y) == Round(BigMul(x.m, y.m), x.e + y.e, FALSE)

\* x + y
FAdd(x, y) ==
    IF x = Zero THEN y
    ELSE IF y = Zero THEN x
    ELSE IF x.e >= y.e
    THEN Round(BigAdd(BigShl(x.m, x.e - y.e), y.m), y.e, FALSE)
    ELSE Round(BigAdd(BigShl(y.m, y.e - x.e), x.m), x.e, FALSE)

\* x / y for y # 0: the quotient of the mantissas to Precision + 2 bits or more
FDivOf(x, y, qr) == Round(qr.q, x.e - y.e - (Precision + 2), qr.r # <<>>)

FDiv(x, y) ==
    IF x = Zero THEN Zero
    ELSE FDivOf(x, y, BigDivMod(BigShl(x.m, Precision + 2), y.m))

\* math.sqrt(x): the root of the mantissa, scaled by an even power of two, to
\* Precision + 1 bits or more
FSqrtOf(n, e, root) == Round(root, e \div 2, BigMul(root, root) # n)

FSqrt(x) ==
    IF x = Zero THEN Zero
    ELSE IF x.e % 2 = 0
    THEN FSqrtOf(BigShl(x.m, 54), x.e - 54, BigSqrt(BigShl(x.m, 54)))
    ELSE FSqrtOf(BigShl(x.m, 55), x.e - 55, BigSqrt(BigShl(x.m, 55)))

\* ------------------------------------------ similarity scorer in binary64

\* sum(values): the builtin starts from the integer 0 and adds from left to right
RECURSIVE FSumFrom(_, _, _)
FSumFrom(values, i, acc) ==
    IF i > Len(values) THEN acc ELSE FSumFrom(values, i + 1, FAdd(acc, values[i]))

FSum(values) == FSumFrom(values, 1, Zero)

\* dot_product / (magnitude1 * magnitude2), after the test for a zero magnitude
cosine_of(dot_product, magnitude1, magnitude2) ==
    IF magnitude1 = Zero \/ magnitude2 = Zero THEN Zero
    ELSE FDiv(dot_product, FMul(magnitude1, magnitude2))

\* cosine_similarity on two lists of floats
cosine_similarity_f64(vec1, vec2) ==
    IF vec1 = <<>> \/ vec2 = <<>> \/ Len(vec1) # Len(vec2) THEN Zero
    ELSE cosine_of(FSum([i \in 1..Len(vec1) |-> FMul(vec1[i], vec2[i])]),
                   FSqrt(FSum([i \in 1..Len(vec1) |-> FMul(vec1[i], vec1[i])])),
                   FSqrt(FSum([i \in 1..Len(vec2) |-> FMul(vec2[i], vec2[i])])))

\* tf.get(term, 0) / len(tokens)
tf_val(tokens, term) == FDiv(FloatOf(Count(tokens, term)), FloatOf(Len(tokens)))

\* calculate_tf_idf_similarity after the two texts are tokenized; vocab is the
\* vocabulary in the order the for loop meets its terms, the iteration order of a
\* set of strings, which the interpreter fixes and the code does not
tf_idf_of_tokens_f64(tokens1, tokens2, vocab) ==
    IF tokens1 = <<>> \/ tokens2 = <<>> \/ vocab = <<>> THEN Zero
    ELSE cosine_similarity_f64([i \in 1..Len(vocab) |-> tf_val(tokens1, vocab[i])],
                               [i \in 1..Len(vocab) |-> tf_val(tokens2, vocab[i])])

\* calculate_jaccard_similarity after the two texts are tokenized
jaccard_of_tokens_f64(tokens1, tokens2) ==
    IF tokens1 = {} /\ tokens2 = {} THEN FloatOf(1)
    ELSE IF tokens1 \cup tokens2 = {} THEN Zero
    ELSE FDiv(FloatOf(Cardinality(tokens1 \cap tokens2)),
              FloatOf(Cardinality(tokens1 \cup tokens2)))

\* The literals 0.7 and 0.3: the floats nearest to 7/10 and 3/10
Float_0_7 == FDiv(FloatOf(7), FloatOf(10))
Float_0_3 == FDiv(FloatOf(3), FloatOf(10))

\* The orders in which a set can be iterated
Orderings(S) == {order \in [1..Cardinality(S) -> S] : ToSet(order) = S}

\* set(tokens1 + tokens2)
vocabulary(text1, text2) == ToSet(tokenize(text1) \o tokenize(text2))

\* calculate_similarity in binary64, with the vocabulary iterated in the order vocab
calculate_similarity_f64(text1, text2, vocab) ==
    IF ~truthy(text1) \/ ~truthy(text2) THEN Zero
    ELSE FAdd(FMul(Float_0_7,
                   tf_idf_of_tokens_f64(tokenize(text1), tokenize(text2), vocab)),
              FMul(Float_0_3,
                   jaccard_of_tokens_f64(ToSet(tokenize(text1)), ToSet(tokenize(text2)))))

\* dict.get(key)
get(d, key) == IF key \in DOMAIN d THEN d[key] ELSE None

Str_category == <<"c","a","t","e","g","o","r","y"," ">>
Str_brand == <<"b","r","a","n","d"," ">>
Str_color == <<"c","o","l","o","r"," ">>
Str_condition == <<"c","o","n","d","i","t","i","o","n"," ">>
Str_lost_at == <<"l","o","s","t"," ","a","t"," ">>
Str_found_at == <<"f","o","u","n","d"," ","a","t"," ">>

create_item_text(item_data) ==
    LET part(key, prefix) ==
            IF truthy(get(item_data, key)) THEN <<prefix \o item_data[key]>> ELSE <<>>
        location ==
            IF truthy(get(item_data, "lost_location"))
            THEN <<Str_lost_at \o item_data["lost_location"]>>
            ELSE part("found_location", Str_found_at)
    IN  join(part("title", <<>>) \o part("description", <<>>)
             \o part("category", Str_category) \o part("brand", Str_brand)
             \o part("color", Str_color) \o part("condition", Str_condition)
             \o location)

\* ------------------------------------------------- metadata compatibility

similarity_threshold == 70

color_groups == {
    {<<"r","e","d">>, <<"b","u","r","g","u","n","d","y">>, <<"c","r","i","m","s","o","n">>, <<"s","c","a","r","l","e","t">>},
    {<<"b","l","u","e">>, <<"n","a","v","y">>, <<"a","z","u","r","e">>, <<"c","y","a","n">>},
    {<<"g","r","e","e","n">>, <<"e","m","e","r","a","l","d">>, <<"l","i","m","e">>, <<"o","l","i","v","e">>},
    {<<"y","e","l","l","o","w">>, <<"g","o","l","d">>, <<"a","m","b","e","r">>},
    {<<"b","l","a","c","k">>, <<"d","a","r","k">>, <<"c","h","a","r","c","o","a","l">>},
    {<<"w","h","i","t","e">>, <<"c","r","e","a","m">>, <<"i","v","o","r","y">>},
    {<<"g","r","a","y">>, <<"g","r","e","y">>, <<"s","i","l","v","e","r">>},
    {<<"b","r","o","w","n">>, <<"t","a","n">>, <<"b","e","i","g","e">>, <<"k","h","a","k","i">>},
    {<<"p","u","r","p","l","e">>, <<"v","i","o","l","e","t">>, <<"m","a","g","e","n","t","a">>},
    {<<"o","r","a","n","g","e">>, <<"c","o","r","a","l">>, <<"p","e","a","c","h">>} }

\* Mutant of color_similarity_of: each color looked up in the groups on its own
color_similarity_of_any_group(c1, c2) ==
    IF c1 = c2 THEN 100
    ELSE IF (\E group \in color_groups : c1 \in group)
            /\ (\E group \in color_groups : c2 \in group) THEN 80
    ELSE 0

\* _calculate_color_similarity after lower().strip()
color_similarity_of(c1, c2) ==
    IF c1 = c2 THEN 100
    ELSE IF \E group \in color_groups : c1 \in group /\ c2 \in group THEN 80
    ELSE 0

_calculate_color_similarity(color1, color2) ==
    color_similarity_of(strip(lower(color1)), strip(lower(color2)))

\* _calculate_location_similarity after lower().strip()
location_similarity_of(l1, l2) ==
    IF l1 = l2 THEN 100
    ELSE IF contains(l2, l1) \/ contains(l1, l2) THEN 80
    ELSE calculate_similarity(l1, l2)

_calculate_location_similarity(location1, location2) ==
    IF ~truthy(location1) \/ ~truthy(location2) THEN 50
    ELSE location_similarity_of(strip(lower(location1)), strip(lower(location2)))

\* Mutant of _passes_metadata_filter: a gap of exactly 365 days rejected as well
_passes_metadata_filter_within_a_year(lost_item, found_item, similarity) ==
    IF similarity < similarity_threshold THEN FALSE
    ELSE IF /\ truthy(lost_item.category) /\ truthy(found_item.category)
            /\ lower(lost_item.category) # lower(found_item.category) THEN FALSE
    ELSE IF /\ truthy(lost_item.color) /\ truthy(found_item.color)
            /\ lower(lost_item.color) # lower(found_item.color)
            /\ _calculate_color_similarity(lost_item.color, found_item.color) < 50 THEN FALSE
    ELSE IF found_item.found_date < lost_item.lost_date THEN FALSE
    ELSE IF found_item.found_date - lost_item.lost_date >= 365 THEN FALSE
    ELSE IF _calculate_location_similarity(lost_item.lost_location,
                                           found_item.found_location) < 30 THEN FALSE
    ELSE TRUE

\* lost_date and found_date are NOT NULL columns holding dates, which are always
\* true in a condition: the date check is always made.
_passes_metadata_filter(lost_item, found_item, similarity) ==
    IF similarity < similarity_threshold THEN FALSE
    ELSE IF /\ truthy(lost_item.category) /\ truthy(found_item.category)
            /\ lower(lost_item.category) # lower(found_item.category) THEN FALSE
    ELSE IF /\ truthy(lost_item.color) /\ truthy(found_item.color)
            /\ lower(lost_item.color) # lower(found_item.color)
            /\ _calculate_color_similarity(lost_item.color, found_item.color) < 50 THEN FALSE
    ELSE IF found_item.found_date < lost_item.lost_date THEN FALSE
    ELSE IF found_item.found_date - lost_item.lost_date > 365 THEN FALSE
    ELSE IF _calculate_location_similarity(lost_item.lost_location,
                                           found_item.found_location) < 30 THEN FALSE
    ELSE TRUE

\* ------------------------------------------------------------ the store

\* Bounds of the model: the lost_items and found_items rows present
MaxLost == 2
MaxFound == 1

\* The users tests/test_data.py creates; its items belong to the first three
NumUsers == 4

Users == 1..NumUsers

\* The rows the tables hold (a database seeded as tests/test_data.py seeds it: items
\* inserted directly, no match computed yet), without their status column, the one
\* column of an item this subsystem writes.  Dates are day numbers.
LostRows == <<
    [id |-> 1, user_id |-> 1,
     title |-> <<"R","e","d"," ","b","a","g">>,
     description |-> <<"r","e","d"," ","b","a","g">>,
     category |-> <<"b","a","g">>, color |-> <<"r","e","d">>, brand |-> None,
     image_url |-> None, lost_location |-> <<"p","a","r","k">>, lost_date |-> 10],
    [id |-> 2, user_id |-> 2,
     title |-> <<"r","e","d"," ","b","a","g">>,
     description |-> <<"R","e","d"," ","b","a","g","!">>,
     category |-> <<"B","a","g">>, color |-> <<"C","r","i","m","s","o","n">>, brand |-> None,
     image_url |-> <<"l","2">>, lost_location |-> <<"P","a","r","k">>, lost_date |-> 11],
    [id |-> 3, user_id |-> 3,
     title |-> <<"B","l","u","e"," ","k","e","y">>,
     description |-> <<"o","l","d"," ","k","e","y">>,
     category |-> <<"k","e","y","s">>, color |-> <<"N","a","v","y">>, brand |-> None,
     image_url |-> <<"l","3">>, lost_location |-> <<"M","a","l","l">>, lost_date |-> 10],
    [id |-> 4, user_id |-> 1,
     title |-> <<"R","e","d"," ","b","a","g">>,
     description |-> <<"r","e","d"," ","b","a","g">>,
     category |-> <<"b","a","g">>, color |-> None, brand |-> None,
     image_url |-> <<"l","4">>, lost_location |-> <<"p","a","r","k">>, lost_date |-> 400],
    [id |-> 5, user_id |-> 4,
     title |-> <<"R","e","d"," ","b","a","g">>,
     description |-> <<"r","e","d"," ","b","a","g">>,
     category |-> <<"b","a","g","s">>, color |-> <<"r","e","d">>, brand |-> None,
     image_url |-> None, lost_location |-> <<"p","a","r","k">>, lost_date |-> 10],
    [id |-> 6, user_id |-> 4,
     title |-> <<"O","l","d"," ","s","h","o","e">>,
     description |-> <<"w","o","r","n"," ","s","h","o","e">>,
     category |-> <<"b","a","g">>, color |-> <<"r","e","d">>, brand |-> None,
     image_url |-> None, lost_location |-> <<"p","a","r","k">>, lost_date |-> 10],
    [id |-> 7, user_id |-> 4,
     title |-> <<"R","e","d"," ","b","a","g">>,
     description |-> <<"r","e","d"," ","b","a","g">>,
     category |-> <<"b","a","g">>, color |-> <<"r","e","d">>, brand |-> None,
     image_url |-> None, lost_location |-> <<"m","a","l","l">>, lost_date |-> 10] >>

FoundRows == <<
    [id |-> 1, user_id |-> 3,
     title |-> <<"r","e","d"," ","b","a","g">>,
     description |-> <<"R","e","d"," ","b","a","g","!">>,
     category |-> <<"B","a","g">>, color |-> <<"r","e","d">>, brand |-> None,
     image_url |-> <<"f","1">>, found_location |-> <<"p","a","r","k">>, found_date |-> 11,
     condition |-> <<"o","k">>],
    [id |-> 2, user_id |-> 2,
     title |-> <<"r","e","d"," ","b","a","g">>,
     description |-> <<"r","e","d"," ","b","a","g">>,
     category |-> <<"b","a","g">>, color |-> <<"s","c","a","r","l","e","t">>, brand |-> None,
     image_url |-> <<"f","2">>, found_location |-> <<"t","h","e"," ","p","a","r","k">>, found_date |-> 13,
     condition |-> <<"o","k">>],
    [id |-> 3, user_id |-> 1,
     title |-> <<"b","l","u","e"," ","k","e","y">>,
     description |-> <<"o","l","d"," ","k","e","y">>,
     category |-> <<"k","e","y","s">>, color |-> <<"b","l","u","e">>, brand |-> None,
     image_url |-> <<"f","3">>, found_location |-> <<"m","a","l","l"," ","2">>, found_date |-> 12,
     condition |-> <<"o","k">>],
    [id |-> 4, user_id |-> 2,
     title |-> <<"r","e","d"," ","b","a","g">>,
     description |-> <<"r","e","d"," ","b","a","g">>,
     category |-> <<"b","a","g">>, color |-> <<"g","r","e","e","n">>, brand |-> None,
     image_url |-> None, found_location |-> <<"p","a","r","k">>, found_date |-> 11,
     condition |-> <<"o","k">>] >>

\* Row i of a table: the rows written out, repeated with a fresh id beyond them
SeedRow(rows, i) == [rows[((i - 1) % Len(rows)) + 1] EXCEPT !.id = i]

LostIds == 1..MaxLost
FoundIds == 1..MaxFound

\* Bounds of the model: the rows of the larger tables, which hold a pair of rows
\* for every way the loop of find_matches_for_* can drop a candidate
MaxWideLost == 7
MaxWideFound == 4

WideLostIds == 1..MaxWideLost
WideFoundIds == 1..MaxWideFound

\* Bound of the model: the rows of the table of found items of which more than
\* default_limit pass the filter against one lost item
MaxManyFound == 22

ManyFoundIds == 1..MaxManyFound

\* The rows by id, for the tables of either size
LostItems == [i \in LostIds \cup WideLostIds |-> SeedRow(LostRows, i)]
FoundItems == [i \in FoundIds \cup WideFoundIds \cup ManyFoundIds |-> SeedRow(FoundRows, i)]

\* The rows of a table that holds the rows ids
Rows(rows, ids) == [i \in ids |-> rows[i]]

VARIABLES
    lost_status,    \* lost_items.status: id -> active, matched, closed
    found_status,   \* found_items.status: id -> available, matched, returned
    matches,        \* table matches: the committed rows, in insertion order (row i has id i)
    response,       \* what the last finished call returned or raised
    watched,        \* the item, as <<is_lost_item, id>>, whose calls scanned follows
    scanned,        \* history: a create_matches_for_item call for the watched item has
                    \* returned, and no item row has changed since
    items,          \* tables lost_items and found_items as the claim routes read
                    \* them: [lost |-> id -> row, found |-> id -> row]
    claims,         \* table claims: the committed rows, in insertion order (row i has id i)
    sessions,       \* the requests in progress: each one's place in
                    \* create_matches_for_item and the rows its session holds uncommitted
    call            \* a call of a function of the services on arguments of its own:
                    \* the arguments, and the result once the call has returned

\* ------------------------------------------------------ matching service

\* The elements of a set of ids as a sequence, ascending: the order a query returns rows
RECURSIVE Ascending(_)
Ascending(S) ==
    IF S = {} THEN <<>>
    ELSE LET lo == CHOOSE x \in S : \A y \in S : x <= y
         IN  <<lo>> \o Ascending(S \ {lo})

\* Mutant of insert_desc: x is put after the elements that are equal to it
insert_desc_after_equal(x, sorted) ==
    LET n == Cardinality({i \in 1..Len(sorted) : sorted[i].similarity >= x.similarity})
    IN  SubSeq(sorted, 1, n) \o <<x>> \o SubSeq(sorted, n + 1, Len(sorted))

\* x put into a list already sorted: before the first element that is not greater
insert_desc(x, sorted) ==
    LET n == Cardinality({i \in 1..Len(sorted) : sorted[i].similarity > x.similarity})
    IN  SubSeq(sorted, 1, n) \o <<x>> \o SubSeq(sorted, n + 1, Len(sorted))

\* list.sort(key=similarity, reverse=True): stable, descending
RECURSIVE sort_desc(_)
sort_desc(pairs) ==
    IF pairs = <<>> THEN <<>>
    ELSE insert_desc(Head(pairs), sort_desc(Tail(pairs)))

Take(seq, n) == SubSeq(seq, 1, IF Len(seq) < n THEN Len(seq) ELSE n)

\* LostItem.to_dict() / FoundItem.to_dict(), the keys create_item_text can read
lost_to_dict(item) ==
    [k \in {"id", "user_id", "title", "description", "category", "color", "brand",
            "image_url", "lost_location", "lost_date"} |-> item[k]]

found_to_dict(item) ==
    [k \in {"id", "user_id", "title", "description", "category", "color", "brand",
            "image_url", "found_location", "found_date", "condition"} |-> item[k]]

\* create_item_text(item.to_dict()) of every row.  No operation changes a column it
\* reads, so the text of a row is the same in every state.
lost_text == [l \in DOMAIN LostItems |-> create_item_text(lost_to_dict(LostItems[l]))]
found_text == [f \in DOMAIN FoundItems |-> create_item_text(found_to_dict(FoundItems[f]))]

default_limit == 10

\* The body of the loop of find_matches_for_lost_item / find_matches_for_found_item for
\* one row, after the similarity is computed: the similarity, and whether the row is kept
\* Mutant of candidate: the metadata filter is not asked
candidate_unfiltered(lost_item, found_item, similarity) ==
    [similarity |-> similarity,
     kept |-> found_item.user_id # lost_item.user_id]

candidate(lost_item, found_item, similarity) ==
    [similarity |-> similarity,
     kept |-> /\ found_item.user_id # lost_item.user_id
              /\ _passes_metadata_filter(lost_item, found_item, similarity)]

lost_candidate ==
    [l \in DOMAIN LostItems |-> [f \in DOMAIN FoundItems |->
        candidate(LostItems[l], FoundItems[f],
                  calculate_similarity(lost_text[l], found_text[f]))]]

found_candidate ==
    [f \in DOMAIN FoundItems |-> [l \in DOMAIN LostItems |->
        candidate(LostItems[l], FoundItems[f],
                  calculate_similarity(found_text[f], lost_text[l]))]]

\* The rows kept out of those the query returned, with their similarity, in order
scored(kept, candidates) ==
    [i \in 1..Len(kept) |-> [item |-> kept[i], similarity |-> candidates[kept[i]].similarity]]

\* matches.sort(key=lambda x: x[1], reverse=True); return matches[:limit]
top_matches(ids, candidates, limit) ==
    Take(sort_desc(scored(SelectSeq(ids, LAMBDA i : candidates[i].kept), candidates)), limit)

\* Mutant of find_matches_for_lost_item: the query takes found items of any status
find_matches_for_lost_item_of_any_status(lost_id, limit) ==
    top_matches(Ascending(DOMAIN found_status), lost_candidate[lost_id], limit)

find_matches_for_lost_item(lost_id, limit) ==
    top_matches(Ascending({f \in DOMAIN found_status : found_status[f] = "available"}),
                lost_candidate[lost_id], limit)

find_matches_for_found_item(found_id, limit) ==
    top_matches(Ascending({l \in DOMAIN lost_status : lost_status[l] = "active"}),
                found_candidate[found_id], limit)

\* 100 * (0.7 * cos + 0.3 * jac) > k, decided in integers
MoreThan(cos, jac, k) ==
    LET rest == k * jac.den - 30 * jac.num
        lhs == 70 * cos.num * jac.den
    IN  rest < 0 \/ (lhs > 0 /\ lhs * lhs > rest * rest * cos.den2)

\* similarity > 0.3 for the similarity of the two texts
above_search_threshold(text1, text2) ==
    /\ truthy(text1) /\ truthy(text2)
    /\ MoreThan(calculate_tf_idf_similarity(text1, text2),
                calculate_jaccard_similarity(text1, text2), 30)

Str_location == <<"l","o","c","a","t","i","o","n"," ">>

\* ' '.join(search_parts)
search_text_of(query, category, color, location) ==
    join(<<query>>
         \o (IF truthy(category) THEN <<Str_category \o category>> ELSE <<>>)
         \o (IF truthy(color) THEN <<Str_color \o color>> ELSE <<>>)
         \o (IF truthy(location) THEN <<Str_location \o location>> ELSE <<>>))

SearchQueries ==
    {<<>>, <<"r","e","d"," ","b","a","g">>, <<"b","a","g">>, <<"k","e","y","s">>}

SearchTypes == {"lost", "found", "both", "any"}

\* category, color and location of the request, absent or all three given
SearchFilters == {<<None, None, None>>, <<<<"b","a","g">>, <<"r","e","d">>, <<"p","a","r","k">>>>}

\* request.args.get('limit', 20, type=int)
SearchLimits == {-1, 1, 20}

\* The texts search_items builds from the requests
SearchTexts ==
    {search_text_of(query, filters[1], filters[2], filters[3]) :
        query \in SearchQueries, filters \in SearchFilters}

\* For each text searched and each row: calculate_similarity(search_text, item_text)
\* and whether it is above 0.3.  No operation changes a column the text of a row
\* reads, so the two are the same in every state.
scored_against(texts) ==
    [search_text \in SearchTexts |-> [id \in DOMAIN texts |->
        [similarity |-> calculate_similarity(search_text, texts[id]),
         kept |-> above_search_threshold(search_text, texts[id])]]]

lost_searched == scored_against(lost_text)
found_searched == scored_against(found_text)

\* result = item.to_dict() with the similarity and the type, for the items kept; of
\* item.to_dict() a row keeps the id
search_rows(type, kept, candidates) ==
    [i \in 1..Len(kept) |->
        [type |-> type, id |-> kept[i], similarity |-> candidates[kept[i]].similarity]]

\* The result rows of one loop of search_items, in the order of the query
search_hits(type, ids, candidates) ==
    search_rows(type, SelectSeq(ids, LAMBDA id : candidates[id].kept), candidates)

\* seq[:limit]
slice_to(seq, limit) ==
    IF limit >= 0 THEN Take(seq, limit)
    ELSE SubSeq(seq, 1, Len(seq) + limit)

\* search_items once search_text is built
search_results(search_text, item_type, limit) ==
    slice_to(sort_desc(
        (IF item_type \in {"lost", "both"}
         THEN search_hits("lost", Ascending({l \in DOMAIN lost_status : lost_status[l] = "active"}),
                          lost_searched[search_text])
         ELSE <<>>)
        \o (IF item_type \in {"found", "both"}
            THEN search_hits("found", Ascending({f \in DOMAIN found_status : found_status[f] = "available"}),
                             found_searched[search_text])
            ELSE <<>>)), limit)

\* SimpleMatchingService.search_items
search_items(query, item_type, category, color, location, limit) ==
    search_results(search_text_of(query, category, color, location), item_type, limit)

\* Mutant of existing_match: the two ids compared with the wrong columns
existing_match_swapped(rows, lost_id, found_id) ==
    \E i \in 1..Len(rows) :
        rows[i].lost_item_id = found_id /\ rows[i].found_item_id = lost_id /\ lost_id # found_id

\* Match.query.filter_by(lost_item_id=..., found_item_id=...).first() is not None,
\* over the rows the session sees
existing_match(rows, lost_id, found_id) ==
    \E i \in 1..Len(rows) :
        rows[i].lost_item_id = lost_id /\ rows[i].found_item_id = found_id

\* Match(lost_item_id=..., found_item_id=..., similarity_score=...), status by default
Match(lost_id, found_id, similarity) ==
    [lost_item_id |-> lost_id, found_item_id |-> found_id,
     similarity_score |-> similarity, status |-> "pending"]

\* The (lost, found, similarity) of each potential match, in order
pairs_of(potential_matches, item_id, is_lost_item) ==
    [i \in 1..Len(potential_matches) |->
        IF is_lost_item
        THEN [lost_id |-> item_id, found_id |-> potential_matches[i].item,
              similarity |-> potential_matches[i].similarity]
        ELSE [lost_id |-> potential_matches[i].item, found_id |-> item_id,
              similarity |-> potential_matches[i].similarity]]

\* The item pairs create_matches_for_item goes through, in order
potential_pairs(item_id, is_lost_item) ==
    IF is_lost_item
    THEN pairs_of(find_matches_for_lost_item(item_id, default_limit), item_id, TRUE)
    ELSE pairs_of(find_matches_for_found_item(item_id, default_limit), item_id, FALSE)

\* Mutant of add_if_absent: the existence query dropped
add_always(committed, matches_created, pair) ==
    Append(matches_created, Match(pair.lost_id, pair.found_id, pair.similarity))

\* One turn of the loop: the existence query (which first flushes the session's
\* added rows, so it sees them beside the committed ones), then the add
add_if_absent(committed, matches_created, pair) ==
    IF existing_match(committed \o matches_created, pair.lost_id, pair.found_id)
    THEN matches_created
    ELSE Append(matches_created, Match(pair.lost_id, pair.found_id, pair.similarity))

RECURSIVE matches_to_create(_, _, _)
matches_to_create(committed, matches_created, pairs) ==
    IF pairs = <<>> THEN matches_created
    ELSE matches_to_create(committed,
                           add_if_absent(committed, matches_created, Head(pairs)),
                           Tail(pairs))

\* db.session.commit(): the session's added rows become rows of the table
commit_matches(committed, added) == committed \o added

\* Mutant of rollback_matches: the rows already flushed by the loop's queries stay
rollback_keeps_flushed(committed, added) ==
    committed \o SubSeq(added, 1, Len(added) - 1)

\* db.session.rollback(): the session's added rows are dropped
rollback_matches(committed, added) == committed

\* -------------------------------------------------- calls, one at a time

Response(op, target, user, code, body) ==
    [op |-> op, target |-> target, user |-> user, code |-> code, body |-> body]

\* Bound of the model: the requests that may be in progress at once
MaxSessions == 2

SessionIds == 1..MaxSessions

\* A worker with no request in progress
Idle == [pc |-> "idle", is_lost_item |-> FALSE, item_id |-> 0,
         potential_matches |-> <<>>, matches_created |-> <<>>]

\* No function called on arguments of its own
NoCall == [fn |-> "none", args |-> <<>>, returned |-> FALSE, result |-> <<>>]

Init ==
    /\ lost_status = [i \in LostIds |-> "active"]
    /\ found_status = [i \in FoundIds |-> "available"]
    /\ matches = <<>>
    /\ response = Response("none", 0, 0, "none", <<>>)
    /\ watched = <<FALSE, 0>>
    /\ scanned = FALSE
    /\ claims = <<>>
    /\ sessions = [s \in SessionIds |-> Idle]
    /\ items = [lost |-> Rows(LostItems, LostIds), found |-> Rows(FoundItems, FoundIds)]
    /\ call = NoCall

\* The end of create_matches_for_item: commit, or rollback and raise.  The body of
\* the response is matches_created when the call returns or raises.
finish_create(is_lost_item, item_id, matches_created, commit_ok) ==
    /\ matches' = IF commit_ok
                  THEN commit_matches(matches, matches_created)
                  ELSE rollback_matches(matches, matches_created)
    /\ response' = Response(IF is_lost_item THEN "create_lost" ELSE "create_found",
                            item_id, 0, IF commit_ok THEN "returned" ELSE "raised",
                            matches_created)
    /\ scanned' = (scanned \/ (commit_ok /\ watched = <<is_lost_item, item_id>>))
    /\ UNCHANGED <<lost_status, found_status, watched>>

\* SimpleMatchingService.create_matches_for_item(item, is_lost_item); commit_ok is
\* whether db.session.commit() succeeds
create_matches_for_item(item_id, is_lost_item, commit_ok) ==
    finish_create(is_lost_item, item_id,
                  matches_to_create(matches, <<>>, potential_pairs(item_id, is_lost_item)),
                  commit_ok)

CreateMatchesForLost ==
    \E item_id \in DOMAIN lost_status, commit_ok \in BOOLEAN :
        /\ create_matches_for_item(item_id, TRUE, commit_ok)
        /\ UNCHANGED <<claims, sessions, items, call>>

CreateMatchesForFound ==
    \E item_id \in DOMAIN found_status, commit_ok \in BOOLEAN :
        /\ create_matches_for_item(item_id, FALSE, commit_ok)
        /\ UNCHANGED <<claims, sessions, items, call>>

\* Mutant of owns_either: the user compared with the item ids, not with their owners
owns_either_by_item_id(match, current_user_id) ==
    \/ match.lost_item_id = current_user_id
    \/ match.found_item_id = current_user_id

\* The ownership check of confirm_match and reject_match
owns_either(match, current_user_id) ==
    \/ LostItems[match.lost_item_id].user_id = current_user_id
    \/ FoundItems[match.found_item_id].user_id = current_user_id

\* Mutant of confirm_writes: the found item's status is not written
confirm_writes_lost_only(match_id) ==
    [matches |-> [matches EXCEPT ![match_id].status = "confirmed"],
     lost_status |-> [lost_status EXCEPT ![matches[match_id].lost_item_id] = "matched"],
     found_status |-> found_status]

\* What confirm_match writes before it commits
confirm_writes(match_id) ==
    LET match == matches[match_id]
    IN  [matches |-> [matches EXCEPT ![match_id].status = "confirmed"],
         lost_status |-> [lost_status EXCEPT ![match.lost_item_id] = "matched"],
         found_status |-> [found_status EXCEPT ![match.found_item_id] = "matched"]]

\* Mutant of reject_writes: rejecting also puts the two items back in the pool
reject_writes_reopen(match_id) ==
    [matches |-> [matches EXCEPT ![match_id].status = "rejected"],
     lost_status |-> [lost_status EXCEPT ![matches[match_id].lost_item_id] = "active"],
     found_status |-> [found_status EXCEPT ![matches[match_id].found_item_id] = "available"]]

\* What reject_match writes before it commits
reject_writes(match_id) ==
    [matches |-> [matches EXCEPT ![match_id].status = "rejected"],
     lost_status |-> lost_status,
     found_status |-> found_status]

\* The route of confirm_match / reject_match: 404 when the row does not exist; 403
\* for a user who owns neither item; else the writes and the commit, 500 with a
\* rollback when the commit fails; after_ok is whether the statements after the
\* commit (confirm's user lookup and notification) succeed, 500 with the commit
\* kept when they do not.
match_route(op, match_id, current_user_id, writes, commit_ok, after_ok) ==
    IF match_id \notin 1..Len(matches)
    THEN /\ response' = Response(op, match_id, current_user_id, "404", <<>>)
         /\ UNCHANGED <<matches, lost_status, found_status, watched, scanned>>
    ELSE IF ~owns_either(matches[match_id], current_user_id)
    THEN /\ response' = Response(op, match_id, current_user_id, "403", <<>>)
         /\ UNCHANGED <<matches, lost_status, found_status, watched, scanned>>
    ELSE IF ~commit_ok
    THEN /\ response' = Response(op, match_id, current_user_id, "500", <<>>)
         /\ UNCHANGED <<matches, lost_status, found_status, watched, scanned>>
    ELSE /\ matches' = writes.matches
         /\ lost_status' = writes.lost_status
         /\ found_status' = writes.found_status
         /\ scanned' = (scanned /\ writes.lost_status = lost_status
                                 /\ writes.found_status = found_status)
         /\ UNCHANGED watched
         /\ response' = Response(op, match_id, current_user_id,
                                 IF after_ok THEN "200" ELSE "500", <<>>)

\* Match ids a caller may name: the rows and one id that does not exist
MatchIdArgs == 1..(Len(matches) + 1)

NoWrites == [matches |-> matches, lost_status |-> lost_status, found_status |-> found_status]

confirm_match(match_id, current_user_id, commit_ok, after_ok) ==
    match_route("confirm", match_id, current_user_id,
                IF match_id \in 1..Len(matches) THEN confirm_writes(match_id) ELSE NoWrites,
                commit_ok, after_ok)

reject_match(match_id, current_user_id, commit_ok) ==
    match_route("reject", match_id, current_user_id,
                IF match_id \in 1..Len(matches) THEN reject_writes(match_id) ELSE NoWrites,
                commit_ok, TRUE)

ConfirmMatch ==
    \E match_id \in MatchIdArgs, user \in Users, commit_ok \in BOOLEAN, after_ok \in BOOLEAN :
        /\ confirm_match(match_id, user, commit_ok, after_ok)
        /\ UNCHANGED <<claims, sessions, items, call>>

RejectMatch ==
    \E match_id \in MatchIdArgs, user \in Users, commit_ok \in BOOLEAN :
        /\ reject_match(match_id, user, commit_ok)
        /\ UNCHANGED <<claims, sessions, items, call>>

vars == <<lost_status, found_status, matches, response, watched, scanned, claims, sessions,
          items, call>>

Next ==
    \/ CreateMatchesForLost
    \/ CreateMatchesForFound
    \/ ConfirmMatch
    \/ RejectMatch

Spec == Init /\ [][Next]_vars

\* The same calls, with the history of one item's calls followed
InitWatched ==
    /\ lost_status = [i \in LostIds |-> "active"]
    /\ found_status = [i \in FoundIds |-> "available"]
    /\ matches = <<>>
    /\ response = Response("none", 0, 0, "none", <<>>)
    /\ watched \in ({TRUE} \X LostIds) \cup ({FALSE} \X FoundIds)
    /\ scanned = FALSE
    /\ claims = <<>>
    /\ sessions = [s \in SessionIds |-> Idle]
    /\ items = [lost |-> Rows(LostItems, LostIds), found |-> Rows(FoundItems, FoundIds)]
    /\ call = NoCall

SpecWatched == InitWatched /\ [][Next]_vars

\* ----------------------------------------------------------- claim routes

\* Bounds of the model: the rows of table claims, the verify calls one claim takes,
\* and the users who send claim requests
MaxClaims == 2
MaxAttempts == 2
MaxClaimants == 2

Claimants == 1..MaxClaimants

question_text == "Based on your description, select the image that best matches your item."

labels == <<"Option B", "Option C", "Option D">>

\* The length of distractor_pool[:3]
distractor_limit == 3

\* A row of either item table, named by its table and id
item_of(tag) == IF tag[1] = "lost" THEN items.lost[tag[2]] ELSE items.found[tag[2]]

\* LostItem.query.filter(LostItem.image_url.isnot(None), LostItem.id != target_item_id)
lost_with_image(target_item_id) ==
    {<<"lost", i>> : i \in {l \in DOMAIN items.lost :
        items.lost[l].image_url # None /\ l # target_item_id}}

\* FoundItem.query.filter(FoundItem.image_url.isnot(None), FoundItem.id != target_item_id)
found_with_image(target_item_id) ==
    {<<"found", i>> : i \in {f \in DOMAIN items.found :
        items.found[f].image_url # None /\ f # target_item_id}}

\* The first query of the distractor pool: the other table, with the category filter
same_category(pool, category) == {tag \in pool : item_of(tag).category = category}

\* "Fallback to any items with images if not enough": the set of the three queries
widened(pool, target_item_id) ==
    IF Cardinality(pool) < distractor_limit
    THEN pool \cup lost_with_image(target_item_id) \cup found_with_image(target_item_id)
    ELSE pool

distractor_pool(target_type, target_item_id, category) ==
    widened(same_category(IF target_type = "lost"
                          THEN found_with_image(target_item_id)
                          ELSE lost_with_image(target_item_id), category),
            target_item_id)

\* The sequences of n distinct members of S
Arrangements(S, n) ==
    {seq \in [1..n -> S] : \A i, j \in 1..n : seq[i] = seq[j] => i = j}

\* What random.shuffle(pool) followed by pool[:3] may leave
drawn_from(pool) ==
    Arrangements(pool, IF Cardinality(pool) < distractor_limit
                       THEN Cardinality(pool) ELSE distractor_limit)

\* What random.shuffle(options) may leave
shuffled(options) ==
    {[i \in 1..Len(options) |-> options[order[i]]] :
        order \in Arrangements(1..Len(options), Len(options))}

\* The options before the shuffle.  An option id is a uuid4().hex value, which the
\* program only ever compares for equality: it is named here by the order in which
\* the request generated it.
options_of(target_item, drawn) ==
    <<[id |-> 1, label |-> "Option A", image_url |-> target_item.image_url]>>
    \o [i \in 1..Len(drawn) |->
            [id |-> i + 1, label |-> labels[i], image_url |-> item_of(drawn[i]).image_url]]

\* "Determine correct option id after shuffle": the first option with the target's image
correct_option_id(options, image_url) ==
    LET hits == {i \in 1..Len(options) : options[i].image_url = image_url}
    IN  IF hits = {} THEN None
        ELSE options[CHOOSE i \in hits : \A j \in hits : i <= j].id

\* Claim(...), with the column defaults of status and attempts.  options_json holds
\* the list json.dumps encodes and to_dict decodes.
Claim(user, target_type, target_item, claimant_description, options) ==
    [claimant_user_id |-> user, target_type |-> target_type,
     target_item_id |-> target_item.id,
     claimant_description |-> claimant_description,
     question_text |-> question_text, options_json |-> options,
     correct_option_id |-> correct_option_id(options, target_item.image_url),
     status |-> "pending", attempts |-> 0]

\* Claim.to_dict(), without id and created_at
Claim_to_dict(claim) ==
    [k \in {"claimant_user_id", "target_type", "target_item_id", "claimant_description",
            "question_text", "options", "status", "attempts"} |->
        IF k = "options" THEN claim.options_json ELSE claim[k]]

\* The end of a claim route: the commit, or the rollback and 500
finish_claim_route(op, target, user, body, written, ok_code, commit_ok) ==
    /\ claims' = IF commit_ok THEN written ELSE claims
    /\ response' = Response(op, target, user, IF commit_ok THEN ok_code ELSE "500", body)

\* A claim route that ends before it writes
refuse_claim_route(op, target, user, body, code) ==
    /\ response' = Response(op, target, user, code, body)
    /\ UNCHANGED claims

\* initiate_claim, from the point where the target item has an image
challenge(user, target_type, target_item, claimant_description, commit_ok) ==
    \E drawn \in drawn_from(distractor_pool(target_type, target_item.id, target_item.category)) :
        \E options \in shuffled(options_of(target_item, drawn)) :
            finish_claim_route("initiate", target_item.id, user, <<target_type>>,
                Append(claims, Claim(user, target_type, target_item,
                                     claimant_description, options)),
                "201", commit_ok)

\* Mutant of has_image: the test dropped
has_image_or_not(item) == item.image_url \in {item.image_url}

\* The test behind "No image available for the target item"
has_image(item) == truthy(item.image_url)

\* POST /api/claims/initiate; a target_item_id of 0 is one the body does not carry
initiate_claim(user, target_type, target_item_id, claimant_description, commit_ok) ==
    IF target_type \notin {"lost", "found"} \/ target_item_id = 0
    THEN refuse_claim_route("initiate", target_item_id, user, <<target_type>>, "400")
    ELSE IF target_item_id \notin DOMAIN (IF target_type = "lost" THEN items.lost
                                           ELSE items.found)
    THEN refuse_claim_route("initiate", target_item_id, user, <<target_type>>, "404")
    ELSE IF ~has_image(item_of(<<target_type, target_item_id>>))
    THEN refuse_claim_route("initiate", target_item_id, user, <<target_type>>, "400")
    ELSE challenge(user, target_type, item_of(<<target_type, target_item_id>>),
                   claimant_description, commit_ok)

\* Item ids a caller may name: the rows of both tables, none, and one past them
ItemIdArgs == 0..(Cardinality(DOMAIN items.lost \cup DOMAIN items.found) + 1)

InitiateClaim ==
    /\ Len(claims) < MaxClaims
    /\ \E user \in Claimants, target_type \in {"lost", "found", "other"},
          target_item_id \in ItemIdArgs, commit_ok \in BOOLEAN :
            initiate_claim(user, target_type, target_item_id, None, commit_ok)
    /\ UNCHANGED <<lost_status, found_status, matches, watched, scanned, sessions, items, call>>

\* Mutant of is_claimant: the test dropped
is_anyone(claim, user) == claim.claimant_user_id \in Users

\* The test behind verify_claim's 403
is_claimant(claim, user) == claim.claimant_user_id = user

\* Mutant of verified: a wrong answer puts the claim back to pending
verified_reopens(claim, selected_option_id) ==
    [claim EXCEPT !.attempts = @ + 1,
                  !.status = IF selected_option_id = claim.correct_option_id
                             THEN "passed" ELSE "pending"]

\* Mutant of verified: the first answer is final, later calls only count
verified_first_answer_final(claim, selected_option_id) ==
    [claim EXCEPT !.attempts = @ + 1,
                  !.status = IF claim.status # "pending" THEN claim.status
                             ELSE IF selected_option_id = claim.correct_option_id
                             THEN "passed" ELSE "failed"]

\* verify_claim's write, had it also taken the selected option as the correct one
verified_moves_answer(claim, selected_option_id) ==
    [claim EXCEPT !.attempts = @ + 1, !.status = "passed",
                  !.correct_option_id = selected_option_id]

\* The writes of verify_claim
verified(claim, selected_option_id) ==
    [claim EXCEPT !.attempts = @ + 1,
                  !.status = IF selected_option_id = claim.correct_option_id
                             THEN "passed" ELSE "failed"]

\* The result verify_claim reports
result_of(claim, selected_option_id) ==
    IF selected_option_id = claim.correct_option_id THEN "correct" ELSE "incorrect"

\* POST /api/claims/verify; a claim_id or selected_option_id of 0 is one the body
\* does not carry
verify_claim(user, claim_id, selected_option_id, commit_ok) ==
    IF claim_id = 0 \/ selected_option_id = 0
    THEN refuse_claim_route("verify", claim_id, user, <<selected_option_id>>, "400")
    ELSE IF claim_id \notin 1..Len(claims)
    THEN refuse_claim_route("verify", claim_id, user, <<selected_option_id>>, "404")
    ELSE IF ~is_claimant(claims[claim_id], user)
    THEN refuse_claim_route("verify", claim_id, user, <<selected_option_id>>, "403")
    ELSE /\ claims[claim_id].attempts < MaxAttempts
         /\ finish_claim_route("verify", claim_id, user,
                <<selected_option_id, result_of(claims[claim_id], selected_option_id)>>,
                [claims EXCEPT ![claim_id] = verified(@, selected_option_id)],
                "200", commit_ok)

\* Claim ids a caller may name: none, the rows, and one past them
ClaimIdArgs == 0..(Len(claims) + 1)

\* Option ids a caller may name: none, those of the claim, and one it does not have
OptionIdArgs(claim_id) ==
    0..((IF claim_id \in 1..Len(claims) THEN Len(claims[claim_id].options_json) ELSE 0) + 1)

VerifyClaim ==
    /\ \E user \in Claimants, claim_id \in ClaimIdArgs, commit_ok \in BOOLEAN :
          \E selected_option_id \in OptionIdArgs(claim_id) :
              verify_claim(user, claim_id, selected_option_id, commit_ok)
    /\ UNCHANGED <<lost_status, found_status, matches, watched, scanned, sessions, items, call>>

NextClaim ==
    \/ InitiateClaim
    \/ VerifyClaim

SpecClaim == Init /\ [][NextClaim]_vars

\* --------------------------------------- the challenge over other pools

\* Bounds of the model: the rows of each item table when the pool is drawn
MaxPoolLost == 1
MaxPoolFound == 3

Digit == <<"1", "2", "3", "4", "5", "6", "7", "8", "9">>

\* The kinds of row a pool is made of: without image, with an image of its own (as
\* _save_image names an upload) or with the shared one; in one of two categories
PoolRowKinds ==
    {[img |-> "none", category |-> <<"b","a","g">>],
     [img |-> "own", category |-> <<"b","a","g">>],
     [img |-> "own", category |-> <<"k","e","y","s">>],
     [img |-> "shared", category |-> <<"b","a","g">>],
     [img |-> "shared", category |-> <<"k","e","y","s">>]}

\* An image reference two rows may carry: the column has no unique constraint
SharedImage == <<"s">>

\* The tables of n rows, ids 1..n, each row of one of the kinds
PoolTables(letter, n) ==
    {[i \in 1..n |->
        [id |-> i,
         image_url |-> IF kind[i].img = "none" THEN None
                       ELSE IF kind[i].img = "shared" THEN SharedImage
                       ELSE <<letter, Digit[i]>>,
         category |-> kind[i].category]] :
        kind \in [1..n -> PoolRowKinds]}

InitChallenge ==
    /\ lost_status = [i \in LostIds |-> "active"]
    /\ found_status = [i \in FoundIds |-> "available"]
    /\ matches = <<>>
    /\ response = Response("none", 0, 0, "none", <<>>)
    /\ watched = <<FALSE, 0>>
    /\ scanned = FALSE
    /\ claims = <<>>
    /\ sessions = [s \in SessionIds |-> Idle]
    /\ items \in {[lost |-> l, found |-> f] :
                    l \in PoolTables("l", MaxPoolLost), f \in PoolTables("f", MaxPoolFound)}
    /\ call = NoCall

\* The first claim made over the pool; who makes it plays no part in the challenge
FirstClaim ==
    /\ claims = <<>>
    /\ \E user \in {1}, target_type \in {"lost", "found", "other"},
          target_item_id \in ItemIdArgs, commit_ok \in BOOLEAN :
            initiate_claim(user, target_type, target_item_id, None, commit_ok)
    /\ UNCHANGED <<lost_status, found_status, matches, watched, scanned, sessions, items, call>>

NextChallenge == FirstClaim

SpecChallenge == InitChallenge /\ [][NextChallenge]_vars

\* ------------------------------------------------- the scorer on its own

\* Bound of the model: the words of a text given to the scorer
MaxWords == 2

\* Words of each kind the tokenizer tells apart: two it keeps, digits, punctuation,
\* a stop word, and a word of two letters
ScorerWords == {<<"r","e","d">>, <<"b","a","g">>, <<"1","2">>, <<"!","!">>,
                <<"t","h","e">>, <<"a","b">>}

ScorerTexts ==
    {None} \cup {join(words) : words \in UNION {[1..k -> ScorerWords] : k \in 0..MaxWords}}

InitScorer ==
    /\ lost_status = [i \in LostIds |-> "active"]
    /\ found_status = [i \in FoundIds |-> "available"]
    /\ matches = <<>>
    /\ response = Response("none", 0, 0, "none", <<>>)
    /\ watched = <<FALSE, 0>>
    /\ scanned = FALSE
    /\ claims = <<>>
    /\ sessions = [s \in SessionIds |-> Idle]
    /\ items = [lost |-> Rows(LostItems, LostIds), found |-> Rows(FoundItems, FoundIds)]
    /\ call \in {[fn |-> "calculate_similarity", args |-> <<text1, text2>>,
                  returned |-> FALSE, result |-> <<>>] :
                    text1 \in ScorerTexts, text2 \in ScorerTexts}

CalculateSimilarity ==
    /\ call.fn = "calculate_similarity" /\ ~call.returned
    /\ \E vocab \in Orderings(vocabulary(call.args[1], call.args[2])) :
          call' = [call EXCEPT !.returned = TRUE,
                               !.result = calculate_similarity_f64(call.args[1],
                                                                   call.args[2], vocab)]
    /\ UNCHANGED <<lost_status, found_status, matches, response, watched, scanned, claims,
                   sessions, items>>

NextScorer == CalculateSimilarity

SpecScorer == InitScorer /\ [][NextScorer]_vars

\* ------------------------------------------- the metadata filter on its own

\* The values of each column the filter reads, for a lost and a found row that
\* otherwise are rows 1 of the tables.  category, location and date are required by
\* the routes and NOT NULL; color is optional and stored as sent.
FilterColors == {None, <<"r","e","d">>, <<"R","e","d">>, <<"r","e","d"," ">>,
                 <<"c","r","i","m","s","o","n">>, <<"g","r","e","e","n">>,
                 <<"t","e","a","l">>}
FilterCategories == {<<"b","a","g">>, <<"B","a","g">>, <<"k","e","y","s">>}
FilterLocations == {<<"P","a","r","k">>, <<"m","a","l","l">>}
FilterLostDates == {1, 2}
FilterFoundDates == {0, 1, 2, 366, 367, 368}
FilterSimilarities == {69, 70, 100}

FilterLost ==
    {[LostRows[1] EXCEPT !.color = color, !.lost_date = lost_date] :
        color \in FilterColors, lost_date \in FilterLostDates}

FilterFound ==
    {[FoundRows[1] EXCEPT !.color = color, !.category = category,
                          !.found_location = found_location, !.found_date = found_date] :
        color \in FilterColors, category \in FilterCategories,
        found_location \in FilterLocations, found_date \in FilterFoundDates}

InitFilter ==
    /\ lost_status = [i \in LostIds |-> "active"]
    /\ found_status = [i \in FoundIds |-> "available"]
    /\ matches = <<>>
    /\ response = Response("none", 0, 0, "none", <<>>)
    /\ watched = <<FALSE, 0>>
    /\ scanned = FALSE
    /\ claims = <<>>
    /\ sessions = [s \in SessionIds |-> Idle]
    /\ items = [lost |-> Rows(LostItems, LostIds), found |-> Rows(FoundItems, FoundIds)]
    /\ call \in {[fn |-> "_passes_metadata_filter",
                  args |-> <<lost_item, found_item, similarity>>,
                  returned |-> FALSE, result |-> <<>>] :
                    lost_item \in FilterLost, found_item \in FilterFound,
                    similarity \in FilterSimilarities}

PassesMetadataFilter ==
    /\ call.fn = "_passes_metadata_filter" /\ ~call.returned
    /\ call' = [call EXCEPT !.returned = TRUE,
                            !.result = _passes_metadata_filter(call.args[1], call.args[2],
                                                               call.args[3])]
    /\ UNCHANGED <<lost_status, found_status, matches, response, watched, scanned, claims,
                   sessions, items>>

NextFilter == PassesMetadataFilter

SpecFilter == InitFilter /\ [][NextFilter]_vars

\* ------------------------------------------- the matcher on the larger tables

\* Seven lost and four found items, all open, no match yet: for every check of the
\* filter there is a pair that fails that check alone, and two pairs have one owner
InitWide ==
    /\ lost_status = [i \in WideLostIds |-> "active"]
    /\ found_status = [i \in WideFoundIds |-> "available"]
    /\ matches = <<>>
    /\ response = Response("none", 0, 0, "none", <<>>)
    /\ watched = <<FALSE, 0>>
    /\ scanned = FALSE
    /\ claims = <<>>
    /\ sessions = [s \in SessionIds |-> Idle]
    /\ items = [lost |-> Rows(LostItems, WideLostIds), found |-> Rows(FoundItems, WideFoundIds)]
    /\ call = NoCall

NextWide ==
    \/ CreateMatchesForLost
    \/ CreateMatchesForFound
    \/ ConfirmMatch

SpecWide == InitWide /\ [][NextWide]_vars

\* ------------------------------------------------------------ the search

\* GET /api/search: 400 without a query, or the results of search_items
search_route(query, item_type, filters, limit) ==
    IF ~truthy(query)
    THEN [code |-> 400, results |-> <<>>]
    ELSE [code |-> 200,
          results |-> search_items(query, item_type, filters[1], filters[2], filters[3], limit)]

SearchItems ==
    \E query \in SearchQueries, item_type \in SearchTypes,
       filters \in SearchFilters, limit \in SearchLimits :
        /\ call' = [fn |-> "search_items", args |-> <<query, item_type, filters, limit>>,
                    returned |-> TRUE,
                    result |-> search_route(query, item_type, filters, limit)]
        /\ UNCHANGED <<lost_status, found_status, matches, response, watched, scanned,
                       claims, sessions, items>>

\* Bound of the model: the rows of the table of lost items that is searched
MaxSearchLost == 3

\* Three lost items and the found items, all open, no match yet; lost item 3 scores
\* above 0 and not above 0.3 against the query for keys
InitSearch ==
    /\ lost_status = [i \in 1..MaxSearchLost |-> "active"]
    /\ found_status = [i \in FoundIds |-> "available"]
    /\ matches = <<>>
    /\ response = Response("none", 0, 0, "none", <<>>)
    /\ watched = <<FALSE, 0>>
    /\ scanned = FALSE
    /\ claims = <<>>
    /\ sessions = [s \in SessionIds |-> Idle]
    /\ items = [lost |-> Rows(LostItems, 1..MaxSearchLost),
                found |-> Rows(FoundItems, FoundIds)]
    /\ call = NoCall

NextSearch ==
    \/ CreateMatchesForLost
    \/ ConfirmMatch
    \/ SearchItems

SpecSearch == InitSearch /\ [][NextSearch]_vars

\* --------------------------------------- the matcher with many candidates

\* Three lost and twenty-two found items, all open, no match yet: twelve found
\* items pass the filter against lost item 1, six with one score and six with
\* another
InitMany ==
    /\ lost_status = [i \in 1..MaxSearchLost |-> "active"]
    /\ found_status = [i \in ManyFoundIds |-> "available"]
    /\ matches = <<>>
    /\ response = Response("none", 0, 0, "none", <<>>)
    /\ watched = <<FALSE, 0>>
    /\ scanned = FALSE
    /\ claims = <<>>
    /\ sessions = [s \in SessionIds |-> Idle]
    /\ items = [lost |-> Rows(LostItems, 1..MaxSearchLost),
                found |-> Rows(FoundItems, ManyFoundIds)]
    /\ call = NoCall

\* Bound of the model: the matches confirmed before the calls of confirm_match end
MaxConfirmed == 1

Confirmed == {i \in 1..Len(matches) : matches[i].status = "confirmed"}

NextMany ==
    \/ CreateMatchesForLost
    \/ Cardinality(Confirmed) < MaxConfirmed /\ ConfirmMatch

SpecMany == InitMany /\ [][NextMany]_vars

\* ------------------------------------------- calls that overlap in time

\* Each request runs create_matches_for_item in a session of its own: its queries
\* see the committed rows and the rows the session itself has added, never the
\* uncommitted rows of another session.  A step is one statement that reads or
\* writes the database.

\* find_matches_for_lost_item / find_matches_for_found_item: the candidates are read
begin_create(s, item_id, is_lost_item) ==
    /\ sessions[s].pc = "idle"
    /\ sessions' = [sessions EXCEPT ![s] =
            [pc |-> "loop", is_lost_item |-> is_lost_item, item_id |-> item_id,
             potential_matches |-> potential_pairs(item_id, is_lost_item),
             matches_created |-> <<>>]]
    /\ UNCHANGED <<lost_status, found_status, matches, response, watched, scanned, claims,
                   items, call>>

\* One turn of the for loop: the existence query and the add
loop_turn(s) ==
    /\ sessions[s].pc = "loop"
    /\ sessions[s].potential_matches # <<>>
    /\ sessions' = [sessions EXCEPT
            ![s].matches_created =
                add_if_absent(matches, @, Head(sessions[s].potential_matches)),
            ![s].potential_matches = Tail(@)]
    /\ UNCHANGED <<lost_status, found_status, matches, response, watched, scanned, claims,
                   items, call>>

\* db.session.commit(), or the rollback and the raise
end_create(s, commit_ok) ==
    /\ sessions[s].pc = "loop"
    /\ sessions[s].potential_matches = <<>>
    /\ finish_create(sessions[s].is_lost_item, sessions[s].item_id,
                     sessions[s].matches_created, commit_ok)
    /\ sessions' = [sessions EXCEPT ![s] = Idle]
    /\ UNCHANGED <<claims, items, call>>

BeginCreate ==
    \E s \in SessionIds :
        \/ \E item_id \in LostIds : begin_create(s, item_id, TRUE)
        \/ \E item_id \in FoundIds : begin_create(s, item_id, FALSE)

LoopTurn == \E s \in SessionIds : loop_turn(s)

EndCreate == \E s \in SessionIds, commit_ok \in BOOLEAN : end_create(s, commit_ok)

NextOverlap ==
    \/ BeginCreate
    \/ LoopTurn
    \/ EndCreate

SpecOverlap == Init /\ [][NextOverlap]_vars

\* confirm_match and reject_match run in a session each as well.  The session loads
\* the row of the match and, for the ownership check, its two items; the commit
\* writes the columns whose value the request changed from what it loaded.

\* Match.query.get_or_404(match_id) and the ownership check
begin_match_route(s, op, match_id, current_user_id) ==
    /\ sessions[s].pc = "idle"
    /\ IF match_id \notin 1..Len(matches)
       THEN /\ response' = Response(op, match_id, current_user_id, "404", <<>>)
            /\ UNCHANGED sessions
       ELSE IF ~owns_either(matches[match_id], current_user_id)
       THEN /\ response' = Response(op, match_id, current_user_id, "403", <<>>)
            /\ UNCHANGED sessions
       ELSE /\ sessions' = [sessions EXCEPT ![s] =
                   [pc |-> "loaded", op |-> op, match_id |-> match_id,
                    current_user_id |-> current_user_id,
                    loaded |-> [status |-> matches[match_id].status,
                                lost |-> lost_status[matches[match_id].lost_item_id],
                                found |-> found_status[matches[match_id].found_item_id]]]]
            /\ UNCHANGED response
    /\ UNCHANGED <<lost_status, found_status, matches, watched, scanned, claims, items, call>>

\* Mutant of flushed: confirm_match writes the status of the match and no item
flushed_match_only(session) ==
    [matches |-> IF session.loaded.status # (IF session.op = "confirm" THEN "confirmed" ELSE "rejected")
                 THEN [matches EXCEPT ![session.match_id].status =
                          IF session.op = "confirm" THEN "confirmed" ELSE "rejected"]
                 ELSE matches,
     lost_status |-> lost_status,
     found_status |-> found_status]

\* The rows after the commit of the session: match.status, and for confirm_match
\* match.lost_item.status and match.found_item.status, each written when the value
\* set differs from the value loaded
flushed(session) ==
    [matches |-> IF session.loaded.status # (IF session.op = "confirm" THEN "confirmed" ELSE "rejected")
                 THEN [matches EXCEPT ![session.match_id].status =
                          IF session.op = "confirm" THEN "confirmed" ELSE "rejected"]
                 ELSE matches,
     lost_status |-> IF session.op = "confirm" /\ session.loaded.lost # "matched"
                     THEN [lost_status EXCEPT ![matches[session.match_id].lost_item_id] = "matched"]
                     ELSE lost_status,
     found_status |-> IF session.op = "confirm" /\ session.loaded.found # "matched"
                      THEN [found_status EXCEPT ![matches[session.match_id].found_item_id] = "matched"]
                      ELSE found_status]

\* db.session.commit() and the response, or the rollback and the 500
end_match_route(s, commit_ok, after_ok) ==
    /\ sessions[s].pc = "loaded"
    /\ matches' = IF commit_ok THEN flushed(sessions[s]).matches ELSE matches
    /\ lost_status' = IF commit_ok THEN flushed(sessions[s]).lost_status ELSE lost_status
    /\ found_status' = IF commit_ok THEN flushed(sessions[s]).found_status ELSE found_status
    /\ response' = Response(sessions[s].op, sessions[s].match_id, sessions[s].current_user_id,
                            IF commit_ok /\ (after_ok \/ sessions[s].op = "reject")
                            THEN "200" ELSE "500", <<>>)
    /\ sessions' = [sessions EXCEPT ![s] = Idle]
    /\ UNCHANGED <<watched, scanned, claims, items, call>>

BeginConfirm ==
    \E s \in SessionIds, match_id \in MatchIdArgs, user \in Users :
        begin_match_route(s, "confirm", match_id, user)

BeginReject ==
    \E s \in SessionIds, match_id \in MatchIdArgs, user \in Users :
        begin_match_route(s, "reject", match_id, user)

EndMatchRoute ==
    \E s \in SessionIds, commit_ok \in BOOLEAN, after_ok \in BOOLEAN :
        end_match_route(s, commit_ok, after_ok)

NextMatchRoutes ==
    \/ CreateMatchesForLost
    \/ BeginConfirm
    \/ BeginReject
    \/ EndMatchRoute

SpecMatchRoutes == Init /\ [][NextMatchRoutes]_vars

\* verify_claim in a session of its own: the claim is loaded, and the commit writes
\* attempts, one more than the value loaded, and the status when it differs from
\* the status loaded.

\* Claim.query.get(claim_id) and the tests before the writes
begin_verify(s, user, claim_id, selected_option_id) ==
    /\ sessions[s].pc = "idle"
    /\ IF claim_id = 0 \/ selected_option_id = 0
       THEN /\ response' = Response("verify", claim_id, user, "400", <<selected_option_id>>)
            /\ UNCHANGED sessions
       ELSE IF claim_id \notin 1..Len(claims)
       THEN /\ response' = Response("verify", claim_id, user, "404", <<selected_option_id>>)
            /\ UNCHANGED sessions
       ELSE IF ~is_claimant(claims[claim_id], user)
       THEN /\ response' = Response("verify", claim_id, user, "403", <<selected_option_id>>)
            /\ UNCHANGED sessions
       ELSE /\ claims[claim_id].attempts < MaxAttempts
            /\ sessions' = [sessions EXCEPT ![s] =
                   [pc |-> "verifying", claim_id |-> claim_id, user |-> user,
                    selected_option_id |-> selected_option_id,
                    loaded |-> claims[claim_id]]]
            /\ UNCHANGED response
    /\ UNCHANGED <<lost_status, found_status, matches, watched, scanned, claims, items, call>>

\* The table after the commit of the session
flushed_claim(session) ==
    [claims EXCEPT
        ![session.claim_id].attempts =
            verified(session.loaded, session.selected_option_id).attempts,
        ![session.claim_id].status =
            IF verified(session.loaded, session.selected_option_id).status # session.loaded.status
            THEN verified(session.loaded, session.selected_option_id).status ELSE @]

\* db.session.commit() and the response, or the rollback and the 500
end_verify(s, commit_ok) ==
    /\ sessions[s].pc = "verifying"
    /\ finish_claim_route("verify", sessions[s].claim_id, sessions[s].user,
            <<sessions[s].selected_option_id,
              result_of(sessions[s].loaded, sessions[s].selected_option_id)>>,
            flushed_claim(sessions[s]), "200", commit_ok)
    /\ sessions' = [sessions EXCEPT ![s] = Idle]
    /\ UNCHANGED <<lost_status, found_status, matches, watched, scanned, items, call>>

BeginVerify ==
    \E s \in SessionIds, user \in Claimants, claim_id \in ClaimIdArgs :
        \E selected_option_id \in OptionIdArgs(claim_id) :
            begin_verify(s, user, claim_id, selected_option_id)

EndVerify == \E s \in SessionIds, commit_ok \in BOOLEAN : end_verify(s, commit_ok)

NextVerify ==
    \/ FirstClaim
    \/ BeginVerify
    \/ EndVerify

SpecVerify == Init /\ [][NextVerify]_vars

\* ------------------------------------------------------------ properties

IsCreate(r) == r.op \in {"create_lost", "create_found"}

SamePair(a, b) ==
    a.lost_item_id = b.lost_item_id /\ a.found_item_id = b.found_item_id

\* C1: after any sequence of create_matches_for_item calls, for lost and for found
\* items, each run to its end before the next starts, the matches table holds at
\* most one row for every (lost_item_id, found_item_id) pair.
C1_AtMostOneMatchPerPair ==
    \A i, j \in 1..Len(matches) : SamePair(matches[i], matches[j]) => i = j

\* A call for a found item that came after calls for lost items and found every one
\* of its pairs recorded
C1_Witness ==
    /\ response.op = "create_found" /\ response.code = "returned"
    /\ response.body = <<>>
    /\ \E i, j \in 1..Len(matches) :
          /\ i # j
          /\ matches[i].found_item_id = response.target
          /\ matches[j].found_item_id = response.target

\* C3: a call of create_matches_for_item for an item for which an earlier call has
\* returned, with no item row changed in between, builds no record (the list it
\* returns is empty) and leaves the matches table as it was: no row added, no score
\* or status rewritten.
C3_SecondCallCreatesNothing ==
    [][(IsCreate(response') /\ scanned
            /\ watched = <<response'.op = "create_lost", response'.target>>)
         => (matches' = matches /\ response'.body = <<>>)]_vars

C3_Witness ==
    /\ scanned /\ IsCreate(response) /\ response.code = "returned"
    /\ watched = <<response.op = "create_lost", response.target>>
    /\ response.body = <<>>
    /\ \E i \in 1..Len(matches) :
          /\ matches[i].status = "rejected"
          /\ (IF watched[1] THEN matches[i].lost_item_id ELSE matches[i].found_item_id)
                = watched[2]

\* C4: create_matches_for_item is all-or-nothing: when the commit fails the call
\* raises and the matches table is what it was before the call; when the commit
\* succeeds the table is the old table followed by every record of the returned list.
C4_CreateAllOrNothing ==
    [][IsCreate(response') =>
        /\ response'.code = "raised" => matches' = matches
        /\ response'.code = "returned" => matches' = matches \o response'.body
        /\ response'.code \in {"raised", "returned"}]_vars

\* A call that had built two records when its commit failed
C4_Witness ==
    /\ IsCreate(response) /\ response.code = "raised"
    /\ Len(response.body) >= 2
    /\ \A i \in 1..Len(response.body) :
          \A j \in 1..Len(matches) : ~SamePair(response.body[i], matches[j])

\* C5: a successful confirm by an owner of the lost or of the found item sets the
\* match to confirmed and both items to matched, and the three writes appear in one
\* step: in no step does a match become confirmed without both its items being
\* matched after the step.
C5_ConfirmWritesTogether ==
    [][/\ (response'.op = "confirm" /\ response'.code = "200") =>
            /\ response'.target \in 1..Len(matches)
            /\ matches'[response'.target].status = "confirmed"
            /\ lost_status'[matches[response'.target].lost_item_id] = "matched"
            /\ found_status'[matches[response'.target].found_item_id] = "matched"
       /\ \A m \in 1..Len(matches) :
            (matches[m].status # "confirmed" /\ matches'[m].status = "confirmed") =>
                /\ lost_status'[matches[m].lost_item_id] = "matched"
                /\ found_status'[matches[m].found_item_id] = "matched"]_vars

C5_Witness ==
    /\ response.op = "confirm" /\ response.code = "200"
    /\ response.target \in 1..Len(matches)
    /\ matches[response.target].status = "confirmed"
    /\ LostItems[matches[response.target].lost_item_id].user_id = response.user
    /\ found_status[matches[response.target].found_item_id] = "matched"

OwnsNeither(match, user) ==
    /\ LostItems[match.lost_item_id].user_id # user
    /\ FoundItems[match.found_item_id].user_id # user

\* C6: confirm and reject answer 403 whenever the acting user owns neither the lost
\* nor the found item of the match, and then the match and both items are as before.
C6_NonOwnerRefused ==
    [][(/\ response'.op \in {"confirm", "reject"}
        /\ response'.target \in 1..Len(matches)
        /\ OwnsNeither(matches[response'.target], response'.user))
         => (/\ response'.code = "403"
             /\ UNCHANGED <<matches, lost_status, found_status>>)]_vars

C6_Witness ==
    /\ response.op = "confirm" /\ response.code = "403"
    /\ response.target \in 1..Len(matches)
    /\ OwnsNeither(matches[response.target], response.user)
    /\ matches[response.target].status = "pending"

\* C7: a successful reject sets the match to rejected and changes nothing else: the
\* two items' statuses, the match's score and every other match are as before.
C7_RejectChangesOnlyTheMatch ==
    [][(response'.op = "reject" /\ response'.code = "200") =>
        /\ response'.target \in 1..Len(matches)
        /\ matches' = [matches EXCEPT ![response'.target].status = "rejected"]
        /\ UNCHANGED <<lost_status, found_status>>]_vars

\* A reject of a match that had been confirmed: the items stay matched
C7_Witness ==
    /\ response.op = "reject" /\ response.code = "200"
    /\ response.target \in 1..Len(matches)
    /\ matches[response.target].status = "rejected"
    /\ lost_status[matches[response.target].lost_item_id] = "matched"
    /\ Len(matches) >= 2

Terminal == {"passed", "failed"}

IsVerify(r) == r.op = "verify"

\* What the claim's status is after an answer
StatusFor(claim, selected_option_id) ==
    IF selected_option_id = claim.correct_option_id THEN "passed" ELSE "failed"

\* C8, as the spec states it: once the status of a claim is passed or failed, no
\* step changes it.
C8_TerminalStatusKept ==
    [][\A c \in 1..Len(claims) :
        claims[c].status \in Terminal => claims'[c].status = claims[c].status]_vars

\* C8, amended: a claim that has left pending never returns to it, and its status
\* changes only in a verify call on it that answers 200, which sets it from the
\* answer of that call: passed and failed are not terminal, each may follow the other.
C8_NeverBackToPending ==
    [][\A c \in 1..Len(claims) :
        /\ claims[c].status \in Terminal => claims'[c].status \in Terminal
        /\ claims'[c].status # claims[c].status =>
            /\ IsVerify(response') /\ response'.code = "200" /\ response'.target = c
            /\ claims'[c].status = StatusFor(claims[c], response'.body[1])]_vars

\* A claim answered twice, the second time wrongly
C8_Witness ==
    /\ IsVerify(response) /\ response.code = "200"
    /\ response.target \in 1..Len(claims)
    /\ claims[response.target].attempts = 2
    /\ claims[response.target].status = "failed"
    /\ response.body[2] = "incorrect"

\* C9: every verify call by the claimant of an existing claim that names an option
\* id is answered 200, or 500 when the commit fails; answered 200 it has added
\* exactly 1 to attempts and set the status to passed when the selected id equals
\* correct_option_id and to failed otherwise, whatever the status was before; a
\* failed commit leaves the claim as it was.
C9_VerifyCountsAndReevaluates ==
    [][(/\ IsVerify(response') /\ response'.target \in 1..Len(claims)
        /\ response'.body[1] # 0
        /\ claims[response'.target].claimant_user_id = response'.user)
         => /\ response'.code \in {"200", "500"}
            /\ response'.code = "500" => claims' = claims
            /\ response'.code = "200" =>
                claims' = [claims EXCEPT
                    ![response'.target].attempts = @ + 1,
                    ![response'.target].status =
                        StatusFor(claims[response'.target], response'.body[1])]]_vars

\* A second call on a claim, answered 200 with the correct option
C9_Witness ==
    /\ IsVerify(response) /\ response.code = "200"
    /\ response.target \in 1..Len(claims)
    /\ claims[response.target].attempts = 2
    /\ claims[response.target].status = "passed"
    /\ response.body[1] = claims[response.target].correct_option_id
    /\ claims[response.target].claimant_user_id = response.user

\* C10: a verify call that names a claim id and an option id is answered 404 when
\* no claim has the id and 403 when the acting user is not the claimant of the
\* claim, and in both cases table claims is as before.
C10_VerifyRefusals ==
    [][(IsVerify(response') /\ response'.target # 0 /\ response'.body[1] # 0) =>
        /\ response'.target \notin 1..Len(claims) =>
            (response'.code = "404" /\ claims' = claims)
        /\ (/\ response'.target \in 1..Len(claims)
            /\ claims[response'.target].claimant_user_id # response'.user) =>
            (response'.code = "403" /\ claims' = claims)
        /\ response'.code \in {"403", "404"} => claims' = claims]_vars

\* A user who is not the claimant names the correct option of a failed claim
C10_Witness ==
    /\ IsVerify(response) /\ response.code = "403"
    /\ response.target \in 1..Len(claims)
    /\ claims[response.target].claimant_user_id # response.user
    /\ response.body[1] = claims[response.target].correct_option_id
    /\ claims[response.target].status = "failed"
    /\ Len(claims) >= 2

\* C2: when create_matches_for_item calls overlap in time, so that the existence
\* query of one runs before the commit of another, then once every call has
\* committed the matches table still holds at most one row for every
\* (lost_item_id, found_item_id) pair.
C2_AtMostOneMatchPerPairOverlapping ==
    (\A s \in SessionIds : sessions[s].pc = "idle") =>
        \A i, j \in 1..Len(matches) : SamePair(matches[i], matches[j]) => i = j

IsInitiate(r) == r.op = "initiate"

\* The table a target_type names
TableOf(target_type) == IF target_type = "lost" THEN items.lost ELSE items.found

\* C11: an initiate call that names a target type and a target id is answered 404
\* when the table has no row with the id, and 400 when the row has no image
\* reference (NULL or empty); in both cases, as with every 400 and 404, table
\* claims is as before: no ClaimRecord is created.
C11_InitiateRefusals ==
    [][(/\ IsInitiate(response') /\ response'.body[1] \in {"lost", "found"}
        /\ response'.target # 0) =>
        /\ response'.target \notin DOMAIN TableOf(response'.body[1]) =>
            (response'.code = "404" /\ claims' = claims)
        /\ (/\ response'.target \in DOMAIN TableOf(response'.body[1])
            /\ TableOf(response'.body[1])[response'.target].image_url \in {None, <<>>}) =>
            (response'.code = "400" /\ claims' = claims)
        /\ response'.code \in {"400", "404"} => claims' = claims]_vars

\* A claim on a lost item without image, refused while another claim exists
C11_Witness ==
    /\ IsInitiate(response) /\ response.code = "400"
    /\ response.body[1] = "lost"
    /\ response.target \in DOMAIN items.lost
    /\ items.lost[response.target].image_url = None
    /\ Len(claims) = 1

\* The target item of a claim
TargetOf(claim) == TableOf(claim.target_type)[claim.target_item_id]

\* The rows of the other table that have an image and the category of the target
SameCategoryWithImage(claim) ==
    {i \in DOMAIN TableOf(IF claim.target_type = "lost" THEN "found" ELSE "lost") :
        /\ TableOf(IF claim.target_type = "lost" THEN "found" ELSE "lost")[i].image_url # None
        /\ TableOf(IF claim.target_type = "lost" THEN "found" ELSE "lost")[i].category
             = TargetOf(claim).category}

\* The options of a claim that have a given id, and those that show a given image
WithId(claim, id) ==
    {i \in 1..Len(claim.options_json) : claim.options_json[i].id = id}

WithImage(claim, image_url) ==
    {i \in 1..Len(claim.options_json) : claim.options_json[i].image_url = image_url}

\* No two rows of the item tables carry the same image reference
ImagesDistinct ==
    \A a, b \in ({"lost"} \X DOMAIN items.lost) \cup ({"found"} \X DOMAIN items.found) :
        (TableOf(a[1])[a[2]].image_url # None
            /\ TableOf(a[1])[a[2]].image_url = TableOf(b[1])[b[2]].image_url) => a = b

\* C12: a claim whose target has at least 3 items of the other type with its
\* category and an image has exactly 4 options, exactly one of them has the id
\* stored as correct_option_id, and that option shows the image of the target.
\* Stated here for the pools alone in which every image belongs to one row.
C12_FourOptionsOneCorrect ==
    \A c \in 1..Len(claims) :
        (ImagesDistinct /\ Cardinality(SameCategoryWithImage(claims[c])) >= 3) =>
            /\ Len(claims[c].options_json) = 4
            /\ Cardinality(WithId(claims[c], claims[c].correct_option_id)) = 1
            /\ \A i \in WithId(claims[c], claims[c].correct_option_id) :
                  claims[c].options_json[i].image_url = TargetOf(claims[c]).image_url

Fixed(claim) ==
    <<claim.options_json, claim.correct_option_id, claim.claimant_user_id,
      claim.target_type, claim.target_item_id, claim.question_text,
      claim.claimant_description>>

\* C14: a claim is created only by an initiate call answered 201, with status
\* pending and attempts 0; after that only a verify call answered 200 on that claim
\* changes it, and it changes nothing but status and attempts: the options,
\* correct_option_id, the claimant, the target type and the target id stay as
\* created, and no claim is ever removed.
C14_ClaimWrittenOnceThenOnlyVerified ==
    [][/\ Len(claims') \in {Len(claims), Len(claims) + 1}
       /\ Len(claims') = Len(claims) + 1 <=>
             (IsInitiate(response') /\ response'.code = "201")
       /\ Len(claims') = Len(claims) + 1 =>
             /\ claims'[Len(claims')].status = "pending"
             /\ claims'[Len(claims')].attempts = 0
       /\ \A c \in 1..Len(claims) :
             /\ Fixed(claims'[c]) = Fixed(claims[c])
             /\ claims'[c] # claims[c] =>
                   /\ IsVerify(response') /\ response'.code = "200"
                   /\ response'.target = c]_vars

\* A claim that has been verified twice, after a later claim was created
C14_Witness ==
    /\ Len(claims) = 2
    /\ claims[1].attempts = 2 /\ claims[1].status = "failed"
    /\ claims[2].attempts = 0 /\ claims[2].status = "pending"
    /\ IsInitiate(response) /\ response.code = "201"

Returned(fn) == call.fn = fn /\ call.returned

\* C15: the score of two texts does not depend on their order, and a text that
\* yields at least one token scores 1.0 against itself.
C15_SymmetricAndOneOnItself ==
    Returned("calculate_similarity") =>
        /\ \A vocab \in Orderings(vocabulary(call.args[2], call.args[1])) :
              calculate_similarity_f64(call.args[2], call.args[1], vocab) = call.result
        /\ (call.args[1] = call.args[2] /\ tokenize(call.args[1]) # <<>>) =>
              call.result = FloatOf(1)

\* C16: the score is 0 whenever at least one of the two texts yields no token,
\* also when both texts are non-empty and neither yields a token.
C16_ZeroWithoutTokens ==
    (/\ Returned("calculate_similarity")
     /\ tokenize(call.args[1]) = <<>> \/ tokenize(call.args[2]) = <<>>) =>
        call.result = Zero

\* The checks of the filter, each as the specification words it
ScoreOk(similarity) == similarity >= similarity_threshold

CategoryOk(lost_item, found_item) == lower(lost_item.category) = lower(found_item.category)

DateOk(lost_item, found_item) ==
    /\ found_item.found_date >= lost_item.lost_date
    /\ found_item.found_date - lost_item.lost_date <= 365

LocationOk(lost_item, found_item) ==
    _calculate_location_similarity(lost_item.lost_location, found_item.found_location) >= 30

InSameGroup(color1, color2) ==
    \E group \in color_groups : color1 \in group /\ color2 \in group

\* The color check as the code makes it: the compatibility test strips the
\* whitespace around both colors
ColorOk(lost_item, found_item) ==
    \/ ~truthy(lost_item.color) \/ ~truthy(found_item.color)
    \/ lower(lost_item.color) = lower(found_item.color)
    \/ strip(lower(lost_item.color)) = strip(lower(found_item.color))
    \/ InSameGroup(strip(lower(lost_item.color)), strip(lower(found_item.color)))

\* C17: a pair whose found date is before its lost date, or more than 365 days
\* after it, is rejected whatever its score; with a gap of 0 to 365 days the pair is
\* accepted exactly when the other checks accept it.
C17_DateWindow ==
    Returned("_passes_metadata_filter") =>
        /\ ~DateOk(call.args[1], call.args[2]) => call.result = FALSE
        /\ DateOk(call.args[1], call.args[2]) =>
              call.result = (/\ ScoreOk(call.args[3])
                             /\ CategoryOk(call.args[1], call.args[2])
                             /\ ColorOk(call.args[1], call.args[2])
                             /\ LocationOk(call.args[1], call.args[2]))

\* A pair found 365 days after it was lost, accepted
C17_Witness ==
    /\ Returned("_passes_metadata_filter")
    /\ call.args[2].found_date - call.args[1].lost_date = 365
    /\ call.result = TRUE

\* The checks of the filter other than the color check
OtherThanColorOk(lost_item, found_item, similarity) ==
    /\ ScoreOk(similarity) /\ CategoryOk(lost_item, found_item)
    /\ DateOk(lost_item, found_item) /\ LocationOk(lost_item, found_item)

BothColored(lost_item, found_item) == truthy(lost_item.color) /\ truthy(found_item.color)

\* C18 as worded: when both items have a color, the compatibility of the two colors
\* is 0.8 when both belong to the same group and 0.0 for any other unequal pair, and
\* the pair passes the color check exactly when the colors are equal
\* case-insensitively or both belong to the same group.
C18_ColorCheckOnColorsAsStored ==
    (/\ Returned("_passes_metadata_filter")
     /\ BothColored(call.args[1], call.args[2])) =>
        /\ lower(call.args[1].color) # lower(call.args[2].color) =>
              _calculate_color_similarity(call.args[1].color, call.args[2].color) =
                  IF InSameGroup(lower(call.args[1].color), lower(call.args[2].color))
                  THEN 80 ELSE 0
        /\ OtherThanColorOk(call.args[1], call.args[2], call.args[3]) =>
              call.result = (\/ lower(call.args[1].color) = lower(call.args[2].color)
                             \/ InSameGroup(lower(call.args[1].color),
                                            lower(call.args[2].color)))

\* C18, amended: when both items have a color, the pair passes the color check
\* exactly when the colors, in lower case and without the whitespace around them,
\* are equal or both belong to the same group; the compatibility of two colors that
\* differ in lower case is then 1.0 or 0.8, and 0.0 for every other pair.
C18_ColorCheckOnStrippedColors ==
    (/\ Returned("_passes_metadata_filter")
     /\ BothColored(call.args[1], call.args[2])) =>
        /\ _calculate_color_similarity(call.args[1].color, call.args[2].color) =
              IF strip(lower(call.args[1].color)) = strip(lower(call.args[2].color))
              THEN 100
              ELSE IF InSameGroup(strip(lower(call.args[1].color)),
                                  strip(lower(call.args[2].color)))
              THEN 80 ELSE 0
        /\ OtherThanColorOk(call.args[1], call.args[2], call.args[3]) =>
              call.result = (\/ strip(lower(call.args[1].color)) =
                                    strip(lower(call.args[2].color))
                             \/ InSameGroup(strip(lower(call.args[1].color)),
                                            strip(lower(call.args[2].color))))

\* A pair accepted with colors of one group, one of them stored with a space after it
C18_Witness ==
    /\ Returned("_passes_metadata_filter")
    /\ call.args[1].color = <<"r","e","d"," ">>
    /\ call.args[2].color = <<"c","r","i","m","s","o","n">>
    /\ call.result = TRUE

\* The rows a step adds to the table of matches
Created == {matches'[i] : i \in (Len(matches) + 1)..Len(matches')}

\* All the checks of the filter on the items of a row
PassedEveryCheck(match) ==
    /\ ScoreOk(match.similarity_score)
    /\ CategoryOk(items.lost[match.lost_item_id], items.found[match.found_item_id])
    /\ ColorOk(items.lost[match.lost_item_id], items.found[match.found_item_id])
    /\ DateOk(items.lost[match.lost_item_id], items.found[match.found_item_id])
    /\ LocationOk(items.lost[match.lost_item_id], items.found[match.found_item_id])

\* The pair of items of the given ids fails the given check and no other
FailsOnly(check, l, f) ==
    /\ ScoreOk(lost_candidate[l][f].similarity) <=> check # "threshold"
    /\ CategoryOk(LostItems[l], FoundItems[f]) <=> check # "category"
    /\ ColorOk(LostItems[l], FoundItems[f]) <=> check # "color"
    /\ DateOk(LostItems[l], FoundItems[f]) <=> check # "date"
    /\ LocationOk(LostItems[l], FoundItems[f]) <=> check # "location"

\* C19: every row create_matches_for_item adds is pending, stores a score of at
\* least the threshold, and links two items that pass every check of the filter:
\* equal categories whatever the case, compatible colors, the date window and the
\* location; a pair that fails one check gets no row however high its score.
C19_CreatedPairsPassedEveryCheck ==
    [][\A match \in Created : match.status = "pending" /\ PassedEveryCheck(match)]_vars

\* A call for a lost item has returned rows while, for each check, a pair that
\* was open and of two owners, and failed that check alone, has no row; the
\* candidate that failed on color alone scored no less than the last row returned
C19_Witness ==
    /\ response.op = "create_lost" /\ response.code = "returned"
    /\ response.body # <<>>
    /\ \A check \in {"threshold", "category", "color", "date", "location"} :
          \E l \in DOMAIN lost_status, f \in DOMAIN found_status :
              /\ FailsOnly(check, l, f)
              /\ LostItems[l].user_id # FoundItems[f].user_id
              /\ lost_status[l] = "active" /\ found_status[f] = "available"
              /\ l = response.target \/ response.target = 1
              /\ ~existing_match(matches, l, f)
    /\ \E f \in DOMAIN found_status :
          /\ FailsOnly("color", response.target, f)
          /\ lost_candidate[response.target][f].similarity >
                 response.body[Len(response.body)].similarity_score - 1

\* The two items of a row have two owners
TwoOwners(match) ==
    items.lost[match.lost_item_id].user_id # items.found[match.found_item_id].user_id

\* The row links the item the call was made for with an item of the other table
\* that was open when the call was made
LinksOpenCandidate(match, is_lost_item, item_id) ==
    IF is_lost_item
    THEN match.lost_item_id = item_id /\ found_status[match.found_item_id] = "available"
    ELSE match.found_item_id = item_id /\ lost_status[match.lost_item_id] = "active"

\* C20: every row create_matches_for_item adds links the item of the call with an
\* item of the other table that was open (a found item available, a lost item
\* active) and belongs to another user; no row of the table of matches ever links
\* a lost and a found item of one user.
C20_OnlyOpenCandidatesOfOtherOwners ==
    /\ [](\A i \in 1..Len(matches) : TwoOwners(matches[i]))
    /\ [][\A match \in Created :
              /\ TwoOwners(match)
              /\ IsCreate(response')
              /\ LinksOpenCandidate(match, response'.op = "create_lost", response'.target)]_vars

\* A call for a lost item has returned while two found items that pass every check
\* with it have no row: one available and of the same owner, one of another owner
\* and no longer available
C20_Witness ==
    /\ response.op = "create_lost" /\ response.code = "returned"
    /\ \E f \in DOMAIN found_status :
          /\ FoundItems[f].user_id = LostItems[response.target].user_id
          /\ found_status[f] = "available"
          /\ _passes_metadata_filter(LostItems[response.target], FoundItems[f],
                                     lost_candidate[response.target][f].similarity)
          /\ ~existing_match(matches, response.target, f)
    /\ \E f \in DOMAIN found_status :
          /\ lost_candidate[response.target][f].kept
          /\ found_status[f] # "available"
          /\ ~existing_match(matches, response.target, f)

\* The row of a search result is for an open item of the polarity asked for that
\* scores more than 0.3 against the text searched
IsHit(row, item_type, search_text) ==
    IF row.type = "lost"
    THEN /\ item_type \in {"lost", "both"}
         /\ row.id \in DOMAIN lost_status /\ lost_status[row.id] = "active"
         /\ lost_searched[search_text][row.id].kept
    ELSE /\ row.type = "found" /\ item_type \in {"found", "both"}
         /\ row.id \in DOMAIN found_status /\ found_status[row.id] = "available"
         /\ found_searched[search_text][row.id].kept

\* The rows a search for the text may return whatever the limit
Hits(item_type, search_text) ==
    {row \in {[type |-> "lost", id |-> l,
               similarity |-> lost_searched[search_text][l].similarity] :
                  l \in DOMAIN lost_status}
            \cup {[type |-> "found", id |-> f,
                   similarity |-> found_searched[search_text][f].similarity] :
                      f \in DOMAIN found_status} :
        IsHit(row, item_type, search_text)}

\* What a search with the given results, for the given type, text and limit, has
\* to satisfy
SearchedAsSpecified(results, item_type, search_text, limit) ==
    /\ \A i \in 1..Len(results) : results[i] \in Hits(item_type, search_text)
    /\ \A i, j \in 1..Len(results) :
          /\ i < j => results[i].similarity >= results[j].similarity
          /\ results[i] = results[j] => i = j
    /\ Len(results) <= limit
    /\ \A row \in Hits(item_type, search_text) :
          \/ \E i \in 1..Len(results) : results[i] = row
          \/ /\ Len(results) = limit
             /\ \A i \in 1..Len(results) : results[i].similarity >= row.similarity

\* C21: search returns only open items (lost active, found available) of the
\* polarity asked for that score more than 0.3 against the composite text, by
\* non-increasing score, at most limit of them and, with no other filter, all of
\* them or the limit best; it changes no item, match or claim.
C21_SearchResults ==
    [][call' # call /\ call'.fn = "search_items" /\ call'.result.code = 200 =>
          /\ SearchedAsSpecified(call'.result.results, call'.args[2],
                                 search_text_of(call'.args[1], call'.args[3][1],
                                                call'.args[3][2], call'.args[3][3]),
                                 call'.args[4])
          /\ UNCHANGED <<lost_status, found_status, matches, claims, items>>]_vars

\* The session is in the middle of the given route on the given match
InRoute(s, op, match_id) ==
    sessions[s].pc = "loaded" /\ sessions[s].op = op /\ sessions[s].match_id = match_id

\* C22: in every committed state, also when confirm and reject calls on one match
\* or on matches that share an item overlap, the lost item and the found item of a
\* confirmed match are both matched.
C22_ConfirmedMatchHasMatchedItems ==
    \A i \in 1..Len(matches) :
        matches[i].status = "confirmed" =>
            /\ lost_status[matches[i].lost_item_id] = "matched"
            /\ found_status[matches[i].found_item_id] = "matched"

\* A match was confirmed, and its items matched, while a reject of the same match
\* that loaded it as pending has not committed yet
C22_Witness ==
    \E i \in 1..Len(matches), s \in SessionIds :
        /\ matches[i].status = "confirmed"
        /\ lost_status[matches[i].lost_item_id] = "matched"
        /\ InRoute(s, "reject", i) /\ sessions[s].loaded.status = "pending"

\* The found items the query of find_matches_for_lost_item returns that pass the
\* owner test and the filter against the lost item
Passing(l) ==
    {f \in DOMAIN found_status : found_status[f] = "available" /\ lost_candidate[l][f].kept}

\* The candidates ranked before f: those of a higher score, and those of the same
\* score retrieved before it
RankedBefore(l, f) ==
    {g \in Passing(l) :
        \/ lost_candidate[l][g].similarity > lost_candidate[l][f].similarity
        \/ lost_candidate[l][g].similarity = lost_candidate[l][f].similarity /\ g < f}

TopTen(l) == {f \in Passing(l) : Cardinality(RankedBefore(l, f)) < 10}

\* The rows of the sequence are in the order of the ranking
InRankOrder(l, rows) ==
    \A i, j \in 1..Len(rows) :
        i < j => rows[i].found_item_id \in RankedBefore(l, rows[j].found_item_id)

\* C23: create_matches_for_item goes through the 10 candidates of the highest
\* score among those that pass the filter, equal scores in the order retrieved; it
\* adds at most 10 rows, one for each of the 10 that has none yet, and none for a
\* candidate ranked below the tenth.
C23_TopTenOnly ==
    [][response' # response /\ response'.op = "create_lost" =>
          /\ Created = IF response'.code = "returned"
                       THEN {Match(response'.target, f,
                                   lost_candidate[response'.target][f].similarity) :
                                f \in {g \in TopTen(response'.target) :
                                          ~existing_match(matches, response'.target, g)}}
                       ELSE {}
          /\ Cardinality(Created) <= 10
          /\ response'.code = "returned" =>
                /\ Created = {response'.body[i] : i \in 1..Len(response'.body)}
                /\ InRankOrder(response'.target, response'.body)]_vars

\* A call for a lost item with eleven passing candidates has returned one new row,
\* the other nine of its top 10 having one already, and the eleventh candidate,
\* which is open, has no row
C23_Witness ==
    /\ response.op = "create_lost" /\ response.code = "returned"
    /\ Len(response.body) = 1
    /\ Cardinality(Passing(response.target)) = 11
    /\ Cardinality({f \in TopTen(response.target) :
                       existing_match(matches, response.target, f)}) = 10
    /\ \E f \in Passing(response.target) \ TopTen(response.target) :
          ~existing_match(matches, response.target, f)

\* The type of the other table
OtherType(target_type) == IF target_type = "lost" THEN "found" ELSE "lost"

\* C24: when at least 3 items of the other type have the category of the target
\* and an image, the pool the distractors are drawn from is exactly the set of
\* these items: an item of the other type is in the pool also when its id is the
\* number of the target's id.  Stated here for the pools alone in which every image
\* belongs to one row.
C24_PoolIsSameCategoryWithImage ==
    \A c \in 1..Len(claims) :
        (ImagesDistinct /\ Cardinality(SameCategoryWithImage(claims[c])) >= 3) =>
            distractor_pool(claims[c].target_type, claims[c].target_item_id,
                            TargetOf(claims[c]).category)
              = {<<OtherType(claims[c].target_type), i>> : i \in SameCategoryWithImage(claims[c])}

\* Every row of either table that has an image, except the target of the claim
AnyWithImageButTarget(claim) ==
    {tag \in ({"lost"} \X DOMAIN items.lost) \cup ({"found"} \X DOMAIN items.found) :
        /\ TableOf(tag[1])[tag[2]].image_url # None
        /\ tag # <<claim.target_type, claim.target_item_id>>}

Min(a, b) == IF a < b THEN a ELSE b

\* C25: when fewer than 3 items of the other type have the category of the target
\* and an image, the pool is every item of either type with an image except the
\* target, each once; the claim has 1 + min(3, size of the pool) options, its
\* distractors come from distinct items and its option ids are pairwise distinct.
\* Stated here for the pools alone in which every image belongs to one row, where
\* distinct items show as distinct images.
C25_WidenedPool ==
    \A c \in 1..Len(claims) :
        (ImagesDistinct /\ Cardinality(SameCategoryWithImage(claims[c])) < 3) =>
            /\ distractor_pool(claims[c].target_type, claims[c].target_item_id,
                               TargetOf(claims[c]).category) = AnyWithImageButTarget(claims[c])
            /\ Len(claims[c].options_json)
                  = 1 + Min(3, Cardinality(AnyWithImageButTarget(claims[c])))
            /\ \A i, j \in 1..Len(claims[c].options_json) :
                  (\/ claims[c].options_json[i].id = claims[c].options_json[j].id
                   \/ claims[c].options_json[i].image_url = claims[c].options_json[j].image_url)
                      => i = j

\* The option lists initiate_claim may store for a target: one for each draw of the
\* distractors and each shuffle of the options
ChallengesOf(claim) ==
    UNION {shuffled(options_of(TargetOf(claim), drawn)) :
              drawn \in drawn_from(distractor_pool(claim.target_type, claim.target_item_id,
                                                   TargetOf(claim).category))}

\* The place in the list of the option that shows the image
PlaceOf(options, image_url) ==
    CHOOSE i \in 1..Len(options) : options[i].image_url = image_url

ImagesOf(options) == {options[i].image_url : i \in 1..Len(options)}

\* C26: what the claimant sees of a claim does not tell which option is the
\* correct one: with the same images, the correct option could as well have had
\* another label and another place in the list, and the claim returned does not
\* carry correct_option_id.  Stated here for the pools alone in which every image
\* belongs to one row, and for claims with a distractor.
C26_CorrectOptionNotTold ==
    \A c \in 1..Len(claims) :
        (ImagesDistinct /\ Len(claims[c].options_json) > 1) =>
            /\ \E other \in ChallengesOf(claims[c]) :
                  /\ ImagesOf(other) = ImagesOf(claims[c].options_json)
                  /\ other[PlaceOf(other, TargetOf(claims[c]).image_url)].label
                       # claims[c].options_json[PlaceOf(claims[c].options_json,
                                                       TargetOf(claims[c]).image_url)].label
            /\ \E other \in ChallengesOf(claims[c]) :
                  /\ ImagesOf(other) = ImagesOf(claims[c].options_json)
                  /\ PlaceOf(other, TargetOf(claims[c]).image_url)
                       # PlaceOf(claims[c].options_json, TargetOf(claims[c]).image_url)
            /\ "correct_option_id" \notin DOMAIN Claim_to_dict(claims[c])

\* The step is the end of a verify call of the session, answered 200
VerifyCompletes(s) ==
    /\ sessions[s].pc = "verifying" /\ sessions'[s].pc = "idle"
    /\ response'.op = "verify" /\ response'.code = "200"

\* C27: attempts of a claim is the number of verify calls of the claimant on it
\* that completed with success, also when two of them overlap: each such call that
\* completes leaves attempts one higher than it was.
C27_AttemptsCountsVerifyCalls ==
    [][\A s \in SessionIds :
          VerifyCompletes(s) =>
              claims'[sessions[s].claim_id].attempts
                 = claims[sessions[s].claim_id].attempts + 1]_vars

\* The confirmed rows that reference the lost item, and the found item
ConfirmedOfLost(l) ==
    {i \in 1..Len(matches) : matches[i].lost_item_id = l /\ matches[i].status = "confirmed"}

ConfirmedOfFound(f) ==
    {i \in 1..Len(matches) : matches[i].found_item_id = f /\ matches[i].status = "confirmed"}

\* C28: after any sequence of create_matches_for_item, confirm and reject calls, an
\* item whose status is matched is referenced by a confirmed match.
C28_MatchedItemHasConfirmedMatch ==
    /\ \A l \in DOMAIN lost_status : lost_status[l] = "matched" => ConfirmedOfLost(l) # {}
    /\ \A f \in DOMAIN found_status : found_status[f] = "matched" => ConfirmedOfFound(f) # {}

\* C29: after any sequence of create_matches_for_item, confirm and reject calls, a
\* lost item and a found item are each referenced by at most one confirmed match:
\* a confirm of a second match of an item that has a confirmed one does not
\* succeed.
C29_AtMostOneConfirmedPerItem ==
    /\ \A l \in DOMAIN lost_status : Cardinality(ConfirmedOfLost(l)) <= 1
    /\ \A f \in DOMAIN found_status : Cardinality(ConfirmedOfFound(f)) <= 1

\* C30: once an item is matched, no later call of create_matches_for_item adds a
\* row that references it, be the item the one the call is made for or a
\* candidate.
C30_NoNewMatchForMatchedItem ==
    [][\A match \in Created :
          /\ lost_status[match.lost_item_id] # "matched"
          /\ found_status[match.found_item_id] # "matched"]_vars
====
